---- MODULE Spec2Model ----
(***************************************************************************)
(* Model of the dimensional-boundary-loss validator:                       *)
(*   PhiCalculator (calculate_phi, _calculate_integration) and             *)
(*   DimensionalCascadeValidator (generate_*_pattern, test_*_to_*,         *)
(*   run_all_tests) of src/validate_dimensional_cascade_multisize.py.      *)
(*                                                                         *)
(* Arrays.  A numpy array is a record [shape, cells]: shape is the tuple   *)
(* of extents and cells the C-order (row-major) flat sequence of its       *)
(* values.  Axes and flat indices are 1-based here (axis a of the model is *)
(* numpy axis a-1); coordinates along an axis are 0-based as in numpy.     *)
(*                                                                         *)
(* Floats.  A Python float is a fixed-point integer in units of 1/Scale    *)
(* (Scale = 2^16), results of division, multiplication and log2 truncated  *)
(* to that grid.  Integers that numpy keeps as integers (cell counts,      *)
(* transition counts, seeds) are plain integers.                           *)
(***************************************************************************)
EXTENDS Integers, Sequences, FiniteSets, TLC

VARIABLES
    pattern,        \* the array a caller hands to calculate_phi
    phi_out,        \* what the last calculate_phi call returned (<<>> before any call)
    phi_calc,       \* the PhiCalculator object: its attribute dictionary
    n_patterns,     \* DimensionalCascadeValidator.n_patterns
    grid_size,      \* DimensionalCascadeValidator.grid_size
    show_progress,  \* run_all_tests argument
    pc,             \* position of run_all_tests
    i,              \* loop variable of the running for-loop
    results,        \* run_all_tests local: the three result lists
    trial,          \* locals of the last test_*_to_* call (<<>> before any)
    seeds_used,     \* history: the seeds the running run_all_tests has passed on
    returned,       \* history: what each finished run_all_tests call returned
    np_random,      \* numpy's process-wide generator (np.random.seed / uniform / choice)
    threads,        \* the trials of the test scripts in flight: their locals
    runner,         \* run_multisize_validation: its locals and position
    consistency,    \* run_grid_size_validation: the cross-size consistency check
    fs,             \* the file tree under the working directory
    util            \* cleanup_utility.py: the last operation and what it printed

vars == <<pattern, phi_out, phi_calc, n_patterns, grid_size, show_progress,
          pc, i, results, trial, seeds_used, returned,
          np_random, threads, runner, consistency, fs, util>>

\* the state outside one validator object
elsewhere == <<np_random, threads, runner, consistency, fs, util>>

----------------------------------------------------------------------------
(* Bounds of the model *)

\* calculate_phi is explored on every binary array of rank <= MaxRank with
\* at most MaxCells cells.
MaxRank == 4
MaxCells == 8
\* the pattern is moved by -MaxShift .. MaxShift steps along an axis
MaxShift == 2
\* validators are built with grid_size in -1..MaxGrid and n_patterns in -1..MaxPatterns
MaxGrid == 3
MaxPatterns == 20
\* a single test_*_to_* is explored on every source pattern of at most MaxLowerCells cells
MaxLowerCells == 9
\* time.time() - start reads 0..MaxElapsed clock ticks
MaxElapsed == 1
\* the trials of the test scripts run with pattern_id in 0..MaxTrialId
MaxTrialId == 1
\* run_all_tests is called up to MaxRuns times on one validator
MaxRuns == 2
\* run_multisize_validation is called with up to MaxSizes grid sizes and
\* n_patterns in 0..MaxRunnerPatterns
MaxSizes == 2
MaxRunnerPatterns == 2
\* run_grid_size_validation compares up to MaxScriptSizes grid sizes whose
\* mean losses are 80, 82.5, ... up to 80 + 2.5 * MaxMeanSteps percent
MaxScriptSizes == 3
MaxMeanSteps == 4
\* the sanity check writes checkerboards on lattices of 2*h1 x 2*h2 cells,
\* h1 and h2 in 1..MaxHalfExtent, and single cells on LatticeSize x LatticeSize
MaxHalfExtent == 10
LatticeSize == 20
\* long runs: validators built with n_patterns up to MaxLongRun at grid_size 1
MaxLongRun == 901

----------------------------------------------------------------------------
(* Float arithmetic (fixed point, truncating) *)

Half == 2 ^ 8
Scale == Half * Half
FracBits == 8 + 8

Abs(x) == IF x < 0 THEN -x ELSE x
Sign(x) == IF x < 0 THEN -1 ELSE 1

\* x * y of two non-negative floats below 16.0, without leaving 31 bits
MulFix(x, y) ==
    LET xh == x \div Half
        xl == x % Half
        yh == y \div Half
        yl == y % Half
    IN  xh * yh + ((xh * yl + xl * yh) * Half + xl * yl) \div Scale

\* float * float
fmul(x, y) == Sign(x) * Sign(y) * MulFix(Abs(x), Abs(y))

\* float / float for x >= 0, y > 0
fdiv(x, y) ==
    LET q  == x \div y
        r1 == (x % y) * Half
        q1 == r1 \div y
        r2 == (r1 % y) * Half
        q2 == r2 \div y
    IN  q * Scale + q1 * Half + q2

\* int / int (Python true division of two integers), a >= 0, b > 0
true_divide(a, b) == (a * Scale) \div b

\* number of doublings that bring x (0 < x < Scale) into [Scale, 2*Scale)
RECURSIVE Exponent(_)
Exponent(x) == IF x >= Scale THEN 0 ELSE 1 + Exponent(2 * x)

\* fractional bits of log2(m / Scale) for m in [Scale, 2*Scale), by repeated squaring
RECURSIVE Log2Frac(_, _)
Log2Frac(m, bit) ==
    IF bit > FracBits THEN 0
    ELSE LET sq == MulFix(m, m)
         IN  IF sq >= 2 * Scale
             THEN 2 ^ (FracBits - bit) + Log2Frac(sq \div 2, bit + 1)
             ELSE Log2Frac(sq, bit + 1)

\* np.log2 of a float in (0, 1]
log2(x) ==
    LET k == Exponent(x)
    IN  Log2Frac(x * 2 ^ k, 1) - k * Scale

----------------------------------------------------------------------------
(* numpy arrays *)

RECURSIVE Prod(_)
Prod(shape) == IF shape = <<>> THEN 1 ELSE Head(shape) * Prod(Tail(shape))

\* pattern.ndim, pattern.size
ndim(a) == Len(a.shape)
size(a) == Len(a.cells)

\* distance in the flat sequence between neighbours along axis
Stride(shape, axis) == Prod(SubSeq(shape, axis + 1, Len(shape)))

\* 0-based coordinate along axis of the cell at flat index idx
Coord(shape, idx, axis) == ((idx - 1) \div Stride(shape, axis)) % shape[axis]

\* pattern.flatten(): a copy of the cells as a rank-1 sequence
flatten(a) == a.cells

\* s[lo] + ... + s[hi], halving the range
RECURSIVE SumBetween(_, _, _)
SumBetween(s, lo, hi) ==
    IF lo > hi THEN 0
    ELSE IF lo = hi THEN s[lo]
    ELSE SumBetween(s, lo, (lo + hi) \div 2) + SumBetween(s, (lo + hi) \div 2 + 1, hi)

SumTo(s, n) == SumBetween(s, 1, n)

\* np.sum over all cells (a boolean array sums as 0/1)
np_sum(cells) == SumTo(cells, Len(cells))

\* np.roll(a, shift) with the axis argument forgotten: numpy rolls the
\* flattened array and restores the shape
np_roll_flattened(a, shift, axis) ==
    [shape |-> a.shape,
     cells |-> [idx \in 1..Len(a.cells) |->
                  a.cells[((idx - 1 - shift) % Len(a.cells)) + 1]]]

\* np.roll(a, shift, axis): the cell at coordinate c along axis moves to
\* (c + shift) mod extent; a new array, a is left alone
np_roll(a, shift, axis) ==
    LET st == Stride(a.shape, axis)
        e  == a.shape[axis]
    IN  [shape |-> a.shape,
         cells |-> [idx \in 1..Len(a.cells) |->
                      LET c == ((idx - 1) \div st) % e
                      IN  a.cells[idx + (((c - shift) % e) - c) * st]]]

\* pattern != shifted, as 0/1
not_equal(a, b) == [idx \in 1..Len(a.cells) |-> IF a.cells[idx] # b.cells[idx] THEN 1 ELSE 0]

\* every array of the shape with cells 0 or 1
BinaryArrays(shape) == {[shape |-> shape, cells |-> c] : c \in [1..Prod(shape) -> {0, 1}]}

\* np.zeros(shape, dtype=int)
np_zeros(shape) == [shape |-> shape, cells |-> [idx \in 1..Prod(shape) |-> 0]]

----------------------------------------------------------------------------
(* PhiCalculator *)

\* PhiCalculator(): the class has no __init__ and no attributes
PhiCalculator == [attrs |-> {}]

\* the loop with total_edges = pattern.size in place of +=
RECURSIVE integration_loop_edges_assigned(_, _, _, _)
integration_loop_edges_assigned(a, axis, transitions, total_edges) ==
    IF axis > ndim(a)
    THEN [transitions |-> transitions, total_edges |-> total_edges]
    ELSE LET shifted == np_roll(a, 1, axis)
         IN  integration_loop_edges_assigned(a, axis + 1,
                              transitions + np_sum(not_equal(a, shifted)),
                              size(a))

\* the loop comparing interior neighbours only (np.diff in place of np.roll):
\* the first and last cells along an axis are not compared
RECURSIVE integration_loop_no_wrap(_, _, _, _)
integration_loop_no_wrap(a, axis, transitions, total_edges) ==
    IF axis > ndim(a)
    THEN [transitions |-> transitions, total_edges |-> total_edges]
    ELSE LET st == Stride(a.shape, axis)
             inner == {idx \in 1..Len(a.cells) :
                          /\ Coord(a.shape, idx, axis) > 0
                          /\ a.cells[idx] # a.cells[idx - st]}
         IN  integration_loop_no_wrap(a, axis + 1,
                              transitions + Cardinality(inner),
                              total_edges + size(a))

\* the for-loop of _calculate_integration, from numpy axis (axis - 1) on
RECURSIVE integration_loop(_, _, _, _)
integration_loop(a, axis, transitions, total_edges) ==
    IF axis > ndim(a)
    THEN [transitions |-> transitions, total_edges |-> total_edges]
    ELSE LET shifted == np_roll(a, 1, axis)
         IN  integration_loop(a, axis + 1,
                              transitions + np_sum(not_equal(a, shifted)),
                              total_edges + size(a))

\* the transitions divided by the number of cells
_calculate_integration_per_cell(self, a) ==
    LET acc == integration_loop(a, 1, 0, 0)
    IN  IF acc.total_edges > 0
        THEN true_divide(acc.transitions, size(a))
        ELSE 0

_calculate_integration(self, a) ==
    LET acc == integration_loop(a, 1, 0, 0)
    IN  IF acc.total_edges > 0
        THEN true_divide(acc.transitions, acc.total_edges)
        ELSE 0

\* what numpy yields for 0 * log2(0), and for x / 0.0
NaN == -(2 ^ 30)
Inf == 2 ^ 30

\* Variants of the code (a slip each), against which the properties below
\* are sharp.  calculate_phi with the edge case tested for all-dead only:
calculate_phi_dead_only(self, a) ==
    LET flat        == flatten(a)
        n_cells     == Len(flat)
        alive_cells == np_sum(flat)
    IN  IF alive_cells = 0
        THEN [ret |-> <<0, 0, 0, 0>>, self |-> self, pattern |-> a]
        ELSE LET R       == true_divide(alive_cells, n_cells)
                 S       == _calculate_integration(self, a)
                 p_alive == true_divide(alive_cells, n_cells)
                 p_dead  == Scale - p_alive
                 D       == IF p_dead = 0 THEN NaN
                            ELSE -(fmul(p_alive, log2(p_alive)) + fmul(p_dead, log2(p_dead)))
                 phi     == IF D = NaN THEN NaN ELSE fmul(R, S) + D
             IN  [ret |-> <<phi, R, S, D>>, self |-> self, pattern |-> a]

\* calculate_phi with phi = R * (S + D)
calculate_phi_precedence(self, a) ==
    LET flat        == flatten(a)
        n_cells     == Len(flat)
        alive_cells == np_sum(flat)
    IN  IF alive_cells = 0 \/ alive_cells = n_cells
        THEN [ret |-> <<0, 0, 0, 0>>, self |-> self, pattern |-> a]
        ELSE LET R       == true_divide(alive_cells, n_cells)
                 S       == _calculate_integration(self, a)
                 p_alive == true_divide(alive_cells, n_cells)
                 p_dead  == Scale - p_alive
                 D       == -(fmul(p_alive, log2(p_alive)) + fmul(p_dead, log2(p_dead)))
                 phi     == fmul(R, S + D)
             IN  [ret |-> <<phi, R, S, D>>, self |-> self, pattern |-> a]

\* calculate_phi keeping its first result on the calculator (self.cache)
\* and returning it to every later call
calculate_phi_cached(self, a) ==
    LET flat        == flatten(a)
        n_cells     == Len(flat)
        alive_cells == np_sum(flat)
        R           == true_divide(alive_cells, n_cells)
        S           == _calculate_integration(self, a)
        p_dead      == Scale - R
        D           == -(fmul(R, log2(R)) + fmul(p_dead, log2(p_dead)))
        fresh       == IF alive_cells = 0 \/ alive_cells = n_cells
                       THEN <<0, 0, 0, 0>>
                       ELSE <<fmul(R, S) + D, R, S, D>>
    IN  IF self.attrs # {}
        THEN [ret |-> (CHOOSE c \in self.attrs : TRUE), self |-> self, pattern |-> a]
        ELSE [ret |-> fresh, self |-> [attrs |-> {fresh}], pattern |-> a]

\* calculate_phi: ret is the returned tuple (phi, R, S, D); self and pattern
\* are the calculator and the argument array as the call leaves them
\* calculate_phi with the entropy of the alive cells alone
calculate_phi_alive_entropy(self, a) ==
    LET flat        == flatten(a)
        n_cells     == Len(flat)
        alive_cells == np_sum(flat)
    IN  IF alive_cells = 0 \/ alive_cells = n_cells
        THEN [ret |-> <<0, 0, 0, 0>>, self |-> self, pattern |-> a]
        ELSE LET R       == true_divide(alive_cells, n_cells)
                 S       == _calculate_integration(self, a)
                 p_alive == true_divide(alive_cells, n_cells)
                 D       == -fmul(p_alive, log2(p_alive))
                 phi     == fmul(R, S) + D
             IN  [ret |-> <<phi, R, S, D>>, self |-> self, pattern |-> a]

calculate_phi(self, a) ==
    LET flat        == flatten(a)
        n_cells     == Len(flat)
        alive_cells == np_sum(flat)
    IN  IF alive_cells = 0 \/ alive_cells = n_cells
        THEN [ret |-> <<0, 0, 0, 0>>, self |-> self, pattern |-> a]
        ELSE LET R       == true_divide(alive_cells, n_cells)
                 S       == _calculate_integration(self, a)
                 p_alive == true_divide(alive_cells, n_cells)
                 p_dead  == Scale - p_alive
                 D       == -(fmul(p_alive, log2(p_alive)) + fmul(p_dead, log2(p_dead)))
                 phi     == fmul(R, S) + D
             IN  [ret |-> <<phi, R, S, D>>, self |-> self, pattern |-> a]

----------------------------------------------------------------------------
(* DimensionalCascadeValidator: pattern generation *)

\* np.random.RandomState(seed): a generator object of its own, whose state
\* is a function of the seed alone.  (numpy's MT19937 is stood for by a
\* small linear congruential generator: x -> 75 x + 74 mod 65537.)
rng_next(x) == (75 * x + 74) % 65537
RandomState(seed) == [state |-> rng_next(rng_next(rng_next(seed % 65537)))]

\* rng.randint(0, 2, size=n): n draws, in C order
RECURSIVE randint_draws(_, _)
randint_draws(x, n) ==
    IF n = 0 THEN <<>>
    ELSE <<(x \div 16) % 2>> \o randint_draws(rng_next(x), n - 1)

randint(rng, shape) ==
    [shape |-> shape, cells |-> randint_draws(rng.state, Prod(shape))]

generate_1d_pattern(self, seed) ==
    LET rng == RandomState(seed)
    IN  randint(rng, <<self.grid_size>>)

generate_2d_pattern(self, seed) ==
    LET rng == RandomState(seed)
    IN  randint(rng, <<self.grid_size, self.grid_size>>)

generate_3d_pattern(self, seed) ==
    LET rng == RandomState(seed)
    IN  randint(rng, <<self.grid_size, self.grid_size, self.grid_size>>)

----------------------------------------------------------------------------
(* DimensionalCascadeValidator: embedding and measuring *)

\* the assignment landing one slice further along the axis
setitem_next_slice(target, axis, index, source) ==
    LET st == Stride(target.shape, axis)
        e  == target.shape[axis]
    IN  [shape |-> target.shape,
         cells |-> [idx \in 1..Len(target.cells) |->
                      IF ((idx - 1) \div st) % e = (index + 1) % e
                      THEN source.cells[((idx - 1) \div (st * e)) * st + ((idx - 1) % st) + 1]
                      ELSE target.cells[idx]]]

\* target[:] = source: the source broadcast into every slice along the axis
setitem_every_slice(target, axis, index, source) ==
    LET st == Stride(target.shape, axis)
        e  == target.shape[axis]
    IN  [shape |-> target.shape,
         cells |-> [idx \in 1..Len(target.cells) |->
                      source.cells[((idx - 1) \div (st * e)) * st + ((idx - 1) % st) + 1]]]

\* target[:, .., index, .., :] = source, the index standing at axis; the
\* other axes of target are the axes of source in order
setitem(target, axis, index, source) ==
    LET st == Stride(target.shape, axis)
        e  == target.shape[axis]
    IN  [shape |-> target.shape,
         cells |-> [idx \in 1..Len(target.cells) |->
                      IF ((idx - 1) \div st) % e = index
                      THEN source.cells[((idx - 1) \div (st * e)) * st + ((idx - 1) % st) + 1]
                      ELSE target.cells[idx]]]

\* the dictionary with the ratio taken without the phi_lower > 0 test
transition_record_unguarded(pattern_id, transition, lo, hi, lower, higher) ==
    LET ratio == IF lo[1] = 0 THEN Inf ELSE fdiv(hi[1], lo[1])
        loss  == IF ratio = Inf THEN -Inf ELSE (Scale - ratio) * 100
    IN  [pattern_id         |-> pattern_id,
         transition         |-> transition,
         phi_lower          |-> lo[1],
         phi_higher         |-> hi[1],
         ratio_phi          |-> ratio,
         loss_pct           |-> loss,
         R_lower            |-> lo[2],
         R_higher           |-> hi[2],
         ratio_R            |-> IF lo[2] > 0 THEN fdiv(hi[2], lo[2]) ELSE 0,
         S_lower            |-> lo[3],
         S_higher           |-> hi[3],
         ratio_S            |-> IF lo[3] > 0 THEN fdiv(hi[3], lo[3]) ELSE 0,
         D_lower            |-> lo[4],
         D_higher           |-> hi[4],
         ratio_D            |-> IF lo[4] > 0 THEN fdiv(hi[4], lo[4]) ELSE 0,
         alive_cells_lower  |-> np_sum(flatten(lower)),
         alive_cells_higher |-> np_sum(flatten(higher))]

\* the "Calculate loss" lines and the dictionary a test_*_to_* returns;
\* lo and hi are the two calculate_phi results
transition_record(pattern_id, transition, lo, hi, lower, higher) ==
    LET ratio == IF lo[1] > 0 THEN fdiv(hi[1], lo[1]) ELSE 0
        loss  == (Scale - ratio) * 100
    IN  [pattern_id         |-> pattern_id,
         transition         |-> transition,
         phi_lower          |-> lo[1],
         phi_higher         |-> hi[1],
         ratio_phi          |-> ratio,
         loss_pct           |-> loss,
         R_lower            |-> lo[2],
         R_higher           |-> hi[2],
         ratio_R            |-> IF lo[2] > 0 THEN fdiv(hi[2], lo[2]) ELSE 0,
         S_lower            |-> lo[3],
         S_higher           |-> hi[3],
         ratio_S            |-> IF lo[3] > 0 THEN fdiv(hi[3], lo[3]) ELSE 0,
         D_lower            |-> lo[4],
         D_higher           |-> hi[4],
         ratio_D            |-> IF lo[4] > 0 THEN fdiv(hi[4], lo[4]) ELSE 0,
         alive_cells_lower  |-> np_sum(flatten(lower)),
         alive_cells_higher |-> np_sum(flatten(higher))]

\* test_1d_to_2d from "Measure in native 1D" on; the transition names are
\* written with -> for the arrow
measure_1d_to_2d(self, pattern_id, pattern_1d) ==
    LET g          == self.grid_size
        m1         == calculate_phi(self.phi_calc, pattern_1d)
        pattern_2d == setitem(np_zeros(<<g, g>>), 1, g \div 2, m1.pattern)
        m2         == calculate_phi(m1.self, pattern_2d)
    IN  [lower    |-> m1.pattern,
         higher   |-> m2.pattern,
         phi_calc |-> m2.self,
         result   |-> transition_record(pattern_id, "1D->2D", m1.ret, m2.ret,
                                        m1.pattern, m2.pattern)]

measure_2d_to_3d(self, pattern_id, pattern_2d) ==
    LET g          == self.grid_size
        m1         == calculate_phi(self.phi_calc, pattern_2d)
        pattern_3d == setitem(np_zeros(<<g, g, g>>), 3, g \div 2, m1.pattern)
        m2         == calculate_phi(m1.self, pattern_3d)
    IN  [lower    |-> m1.pattern,
         higher   |-> m2.pattern,
         phi_calc |-> m2.self,
         result   |-> transition_record(pattern_id, "2D->3D", m1.ret, m2.ret,
                                        m1.pattern, m2.pattern)]

measure_3d_to_4d(self, pattern_id, pattern_3d) ==
    LET g          == self.grid_size
        m1         == calculate_phi(self.phi_calc, pattern_3d)
        pattern_4d == setitem(np_zeros(<<g, g, g, g>>), 4, g \div 2, m1.pattern)
        m2         == calculate_phi(m1.self, pattern_4d)
    IN  [lower    |-> m1.pattern,
         higher   |-> m2.pattern,
         phi_calc |-> m2.self,
         result   |-> transition_record(pattern_id, "3D->4D", m1.ret, m2.ret,
                                        m1.pattern, m2.pattern)]

test_1d_to_2d(self, pattern_id, seed) ==
    measure_1d_to_2d(self, pattern_id, generate_1d_pattern(self, seed))

test_2d_to_3d(self, pattern_id, seed) ==
    measure_2d_to_3d(self, pattern_id, generate_2d_pattern(self, seed))

test_3d_to_4d(self, pattern_id, seed) ==
    measure_3d_to_4d(self, pattern_id, generate_3d_pattern(self, seed))

\* the validator object
Validator == [n_patterns |-> n_patterns, grid_size |-> grid_size, phi_calc |-> phi_calc]

\* the locals of a finished test_*_to_* call
TrialLocals(rank, pattern_id, seed, out) ==
    [rank |-> rank, pattern_id |-> pattern_id, seed |-> seed,
     lower |-> out.lower, higher |-> out.higher, result |-> out.result]

----------------------------------------------------------------------------
(* DimensionalCascadeValidator.run_all_tests *)

EmptyResults == [test_1d_2d |-> <<>>, test_2d_3d |-> <<>>, test_3d_4d |-> <<>>]

\* no seed has been passed to a generator
NoSeeds == [test_1d_2d |-> {}, test_2d_3d |-> {}, test_3d_4d |-> {}]

\* nothing outside the validator is running: no test script, no runner, no
\* cleanup; the working directory is empty
NoThreads ==
    /\ np_random = 0
    /\ threads = <<>>

NoRunner == runner = <<>>

NoConsistency == consistency = <<>>

NoCleanup ==
    /\ fs = {}
    /\ util = <<>>

Elsewhere ==
    /\ NoThreads
    /\ NoRunner
    /\ NoConsistency
    /\ NoCleanup

NoPhiCaller ==
    /\ pattern = np_zeros(<<1>>)
    /\ phi_out = <<>>

\* a validator has been constructed (__init__ stores any two integers);
\* run_all_tests has not been called
Init ==
    /\ NoPhiCaller
    /\ phi_calc = PhiCalculator
    /\ n_patterns \in -1..MaxPatterns
    /\ grid_size \in -1..MaxGrid
    /\ show_progress = FALSE
    /\ pc = "ready"
    /\ i = 0
    /\ results = EmptyResults
    /\ trial = <<>>
    /\ seeds_used = NoSeeds
    /\ returned = <<>>
    /\ Elsewhere

\* run_all_tests going on with the lists of the call before
Begin_keeps_results ==
    /\ pc = "ready"
    /\ show_progress' \in BOOLEAN
    /\ results' = results
    /\ pc' = "1d_2d"
    /\ i' = 0
    /\ UNCHANGED <<pattern, phi_out, phi_calc, n_patterns, grid_size, trial>>
    /\ seeds_used' = NoSeeds
    /\ UNCHANGED <<returned, elsewhere>>

\* run_all_tests(show_progress): the results dictionary is created
Begin ==
    /\ pc = "ready"
    /\ show_progress' \in BOOLEAN
    /\ results' = EmptyResults
    /\ pc' = "1d_2d"
    /\ i' = 0
    /\ UNCHANGED <<pattern, phi_out, phi_calc, n_patterns, grid_size, trial>>
    /\ seeds_used' = NoSeeds
    /\ UNCHANGED <<returned, elsewhere>>

\* the progress lines after a trial: elapsed = time.time() - start,
\* rate = (i + 1) / elapsed raises ZeroDivisionError when elapsed is 0.0
Progress ==
    IF show_progress /\ (i + 1) % 20 = 0
    THEN \E elapsed \in 0..MaxElapsed :
            IF elapsed = 0
            THEN pc' = "raised" /\ i' = i
            ELSE pc' = pc /\ i' = i + 1
    ELSE pc' = pc /\ i' = i + 1

\* with grid_size < 0 rng.randint(0, 2, size=grid_size) raises ValueError;
\* with grid_size = 0 the empty pattern is generated and measured, then
\* pattern_2d[0, :] = pattern_1d raises IndexError
Trial1d2d ==
    /\ pc = "1d_2d"
    /\ i < n_patterns
    /\ LET seed == 100 + i
       IN  IF grid_size < 0
           THEN /\ pc' = "raised"
                /\ UNCHANGED <<i, results, phi_calc, trial>>
           ELSE IF grid_size = 0
           THEN LET m1 == calculate_phi(phi_calc, generate_1d_pattern(Validator, seed))
                IN  /\ pc' = "raised"
                    /\ phi_calc' = m1.self
                    /\ trial' = [rank |-> 1, pattern_id |-> i, seed |-> seed,
                                 lower |-> m1.pattern, phi_lower |-> m1.ret[1],
                                 raised |-> "IndexError"]
                    /\ UNCHANGED <<i, results>>
           ELSE LET out == test_1d_to_2d(Validator, i, seed)
                IN  /\ results' = [results EXCEPT !.test_1d_2d = Append(@, out.result)]
                    /\ phi_calc' = out.phi_calc
                    /\ trial' = TrialLocals(1, i, seed, out)
                    /\ Progress
    /\ UNCHANGED <<pattern, phi_out, n_patterns, grid_size, show_progress>>
    /\ seeds_used' = [seeds_used EXCEPT !.test_1d_2d = @ \cup {100 + i}]
    /\ UNCHANGED <<returned, elsewhere>>

\* the 1D->2D loop left one trial early: range(n_patterns - 1)
Done1d2d_one_early ==
    /\ pc = "1d_2d"
    /\ i >= n_patterns - 1
    /\ pc' = "2d_3d"
    /\ i' = 0
    /\ UNCHANGED <<pattern, phi_out, phi_calc, n_patterns, grid_size, show_progress,
                   results, trial>>
    /\ UNCHANGED <<seeds_used, returned, elsewhere>>

Done1d2d ==
    /\ pc = "1d_2d"
    /\ i >= n_patterns
    /\ pc' = "2d_3d"
    /\ i' = 0
    /\ UNCHANGED <<pattern, phi_out, phi_calc, n_patterns, grid_size, show_progress,
                   results, trial>>
    /\ UNCHANGED <<seeds_used, returned, elsewhere>>

\* the 2D->3D loop with the seed line of the 1D->2D loop
Trial2d3d_seed_100 ==
    /\ pc = "2d_3d"
    /\ i < n_patterns
    /\ LET seed == 100 + i
           out  == test_2d_to_3d(Validator, i, seed)
       IN  /\ results' = [results EXCEPT !.test_2d_3d = Append(@, out.result)]
           /\ phi_calc' = out.phi_calc
           /\ trial' = TrialLocals(2, i, seed, out)
    /\ Progress
    /\ UNCHANGED <<pattern, phi_out, n_patterns, grid_size, show_progress>>
    /\ seeds_used' = [seeds_used EXCEPT !.test_2d_3d = @ \cup {100 + i}]
    /\ UNCHANGED <<returned, elsewhere>>

Trial2d3d ==
    /\ pc = "2d_3d"
    /\ i < n_patterns
    /\ LET seed == 1000 + i
           out  == test_2d_to_3d(Validator, i, seed)
       IN  /\ results' = [results EXCEPT !.test_2d_3d = Append(@, out.result)]
           /\ phi_calc' = out.phi_calc
           /\ trial' = TrialLocals(2, i, seed, out)
    /\ Progress
    /\ UNCHANGED <<pattern, phi_out, n_patterns, grid_size, show_progress>>
    /\ seeds_used' = [seeds_used EXCEPT !.test_2d_3d = @ \cup {1000 + i}]
    /\ UNCHANGED <<returned, elsewhere>>

Done2d3d ==
    /\ pc = "2d_3d"
    /\ i >= n_patterns
    /\ pc' = "3d_4d"
    /\ i' = 0
    /\ UNCHANGED <<pattern, phi_out, phi_calc, n_patterns, grid_size, show_progress,
                   results, trial>>
    /\ UNCHANGED <<seeds_used, returned, elsewhere>>

Trial3d4d ==
    /\ pc = "3d_4d"
    /\ i < n_patterns
    /\ LET seed == 3000 + i
           out  == test_3d_to_4d(Validator, i, seed)
       IN  /\ results' = [results EXCEPT !.test_3d_4d = Append(@, out.result)]
           /\ phi_calc' = out.phi_calc
           /\ trial' = TrialLocals(3, i, seed, out)
    /\ Progress
    /\ UNCHANGED <<pattern, phi_out, n_patterns, grid_size, show_progress>>
    /\ seeds_used' = [seeds_used EXCEPT !.test_3d_4d = @ \cup {3000 + i}]
    /\ UNCHANGED <<returned, elsewhere>>

\* return results
Return ==
    /\ pc = "3d_4d"
    /\ i >= n_patterns
    /\ pc' = "returned"
    /\ UNCHANGED <<pattern, phi_out, phi_calc, n_patterns, grid_size, show_progress,
                   i, results, trial>>
    /\ returned' = Append(returned, results)
    /\ UNCHANGED <<seeds_used, elsewhere>>

Next ==
    \/ Begin
    \/ Trial1d2d
    \/ Done1d2d
    \/ Trial2d3d
    \/ Done2d3d
    \/ Trial3d4d
    \/ Return

Spec == Init /\ [][Next]_vars

\* the caller calls run_all_tests of the same validator once more
RunAgain ==
    /\ pc = "returned"
    /\ Len(returned) < MaxRuns
    /\ pc' = "ready"
    /\ UNCHANGED <<pattern, phi_out, phi_calc, n_patterns, grid_size, show_progress,
                   i, results, trial, seeds_used, returned, elsewhere>>

NextTwice ==
    \/ Next
    \/ RunAgain

SpecTwice == Init /\ [][NextTwice]_vars

\* a validator built for a long run on the smallest grid
InitLong ==
    /\ NoPhiCaller
    /\ phi_calc = PhiCalculator
    /\ n_patterns \in {MaxLongRun - 1, MaxLongRun}
    /\ grid_size = 1
    /\ show_progress = FALSE
    /\ pc = "ready"
    /\ i = 0
    /\ results = EmptyResults
    /\ trial = <<>>
    /\ seeds_used = NoSeeds
    /\ returned = <<>>
    /\ Elsewhere

SpecLong == InitLong /\ [][Next]_vars

----------------------------------------------------------------------------
(* One test_*_to_* call, whatever pattern the generator draws *)

LowerShape(rank) == [ax \in 1..rank |-> grid_size]

InitTrial ==
    /\ NoPhiCaller
    /\ phi_calc = PhiCalculator
    /\ n_patterns = 1
    /\ grid_size \in 1..MaxGrid
    /\ show_progress = FALSE
    /\ pc = "idle"
    /\ i = 0
    /\ results = EmptyResults
    /\ trial = <<>>
    /\ seeds_used = NoSeeds
    /\ returned = <<>>
    /\ Elsewhere

Test1d2d ==
    /\ trial = <<>>
    /\ Prod(LowerShape(1)) <= MaxLowerCells
    /\ \E drawn \in BinaryArrays(LowerShape(1)) :
         LET out == measure_1d_to_2d(Validator, 0, drawn)
         IN  /\ trial' = TrialLocals(1, 0, 100, out)
             /\ phi_calc' = out.phi_calc
    /\ UNCHANGED <<pattern, phi_out, n_patterns, grid_size, show_progress, pc, i, results>>
    /\ UNCHANGED <<seeds_used, returned, elsewhere>>

Test2d3d ==
    /\ trial = <<>>
    /\ Prod(LowerShape(2)) <= MaxLowerCells
    /\ \E drawn \in BinaryArrays(LowerShape(2)) :
         LET out == measure_2d_to_3d(Validator, 0, drawn)
         IN  /\ trial' = TrialLocals(2, 0, 1000, out)
             /\ phi_calc' = out.phi_calc
    /\ UNCHANGED <<pattern, phi_out, n_patterns, grid_size, show_progress, pc, i, results>>
    /\ UNCHANGED <<seeds_used, returned, elsewhere>>

Test3d4d ==
    /\ trial = <<>>
    /\ Prod(LowerShape(3)) <= MaxLowerCells
    /\ \E drawn \in BinaryArrays(LowerShape(3)) :
         LET out == measure_3d_to_4d(Validator, 0, drawn)
         IN  /\ trial' = TrialLocals(3, 0, 3000, out)
             /\ phi_calc' = out.phi_calc
    /\ UNCHANGED <<pattern, phi_out, n_patterns, grid_size, show_progress, pc, i, results>>
    /\ UNCHANGED <<seeds_used, returned, elsewhere>>

\* the caller lets go of the returned dictionary
Drop ==
    /\ trial # <<>>
    /\ trial' = <<>>
    /\ UNCHANGED <<pattern, phi_out, phi_calc, n_patterns, grid_size, show_progress,
                   pc, i, results>>
    /\ UNCHANGED <<seeds_used, returned, elsewhere>>

NextTrial == Test1d2d \/ Test2d3d \/ Test3d4d \/ Drop

SpecTrial == InitTrial /\ [][NextTrial]_vars

----------------------------------------------------------------------------
(* Callers of calculate_phi: any binary array *)

\* the shapes of rank <= maxRank with at most maxCells cells, and their arrays
Shapes(maxRank, maxCells) ==
    {s \in UNION {[1..r -> 1..maxCells] : r \in 1..maxRank} : Prod(s) <= maxCells}

Patterns(maxRank, maxCells) == UNION {BinaryArrays(s) : s \in Shapes(maxRank, maxCells)}

\* no validator is running
Idle ==
    /\ n_patterns = 0
    /\ grid_size = 1
    /\ show_progress = FALSE
    /\ pc = "idle"
    /\ i = 0
    /\ results = EmptyResults
    /\ trial = <<>>
    /\ seeds_used = NoSeeds
    /\ returned = <<>>

InitPhi ==
    /\ pattern \in Patterns(MaxRank, MaxCells)
    /\ phi_out = <<>>
    /\ phi_calc = PhiCalculator
    /\ Idle
    /\ Elsewhere

\* phi, R, S, D = phi_calc.calculate_phi(pattern)
CallPhi ==
    LET out == calculate_phi(phi_calc, pattern)
    IN  /\ phi_out' = out.ret
        /\ phi_calc' = out.self
        /\ pattern' = out.pattern
        /\ UNCHANGED <<n_patterns, grid_size, show_progress, pc, i, results, trial>>
        /\ UNCHANGED <<seeds_used, returned, elsewhere>>

\* the caller writes one cell of its array before measuring again
\* (grid_single[10, 10] = 1)
SetCell ==
    /\ phi_out # <<>>
    /\ \E idx \in 1..Len(pattern.cells), v \in {0, 1} :
         /\ pattern.cells[idx] # v
         /\ pattern' = [pattern EXCEPT !.cells[idx] = v]
    /\ phi_out' = <<>>
    /\ UNCHANGED <<phi_calc, n_patterns, grid_size, show_progress, pc, i, results, trial>>
    /\ UNCHANGED <<seeds_used, returned, elsewhere>>

NextPhi == CallPhi \/ SetCell

SpecPhi == InitPhi /\ [][NextPhi]_vars

----------------------------------------------------------------------------
(* Vocabulary of the properties *)

Called == phi_out # <<>>
Phi == phi_out[1]
R == phi_out[2]
S == phi_out[3]
D == phi_out[4]

SetCells(a) == {idx \in 1..Len(a.cells) : a.cells[idx] = 1}
Uniform(a) == \/ \A idx \in 1..Len(a.cells) : a.cells[idx] = 0
              \/ \A idx \in 1..Len(a.cells) : a.cells[idx] = 1
NonDegenerate(a) == ~Uniform(a)

\* multi-index of a flat index, and back
Unravel(shape, idx) == [ax \in 1..Len(shape) |-> Coord(shape, idx, ax)]
RECURSIVE RavelFrom(_, _, _)
RavelFrom(shape, coords, ax) ==
    IF ax > Len(shape) THEN 0
    ELSE coords[ax] * Stride(shape, ax) + RavelFrom(shape, coords, ax + 1)
Ravel(shape, coords) == 1 + RavelFrom(shape, coords, 1)

\* flat index of the cell k steps back along axis ax, around the torus
StepsBack(shape, idx, ax, k) ==
    Ravel(shape, [Unravel(shape, idx) EXCEPT ![ax] = (@ - k) % shape[ax]])

\* the array moved k steps along axis ax on the torus: the cell at
\* coordinate c of that axis holds what was at coordinate (c - k) mod extent
CyclicShift(a, k, ax) ==
    LET st == Stride(a.shape, ax)
        e  == a.shape[ax]
    IN  [shape |-> a.shape,
         cells |-> [idx \in 1..Len(a.cells) |->
                      LET c == ((idx - 1) \div st) % e
                      IN  a.cells[idx - c * st + ((c - k) % e) * st]]]

\* (axis, position) pairs whose cell differs from the one a step back
DifferingPositions(a) ==
    {q \in (1..Len(a.shape)) \X (1..Len(a.cells)) :
        a.cells[q[2]] # a.cells[StepsBack(a.shape, q[2], q[1], 1)]}

\* binary Shannon entropy of the fraction p
Entropy(p) == -(fmul(p, log2(p)) + fmul(Scale - p, log2(Scale - p)))

----------------------------------------------------------------------------
(* Properties of calculate_phi (SpecPhi) *)

\* C1: a pattern whose cells are all 0 or all 1, of any rank and shape,
\* measures exactly (0.0, 0.0, 0.0, 0.0).
C1_UniformIsZero == (Called /\ Uniform(pattern)) => phi_out = <<0, 0, 0, 0>>

C1_Witness ==
    /\ Called
    /\ Len(pattern.shape) >= 2
    /\ Len(pattern.cells) >= 4
    /\ \A idx \in 1..Len(pattern.cells) : pattern.cells[idx] = 1
    /\ phi_out = <<0, 0, 0, 0>>

\* C2: for a pattern with a 0 cell and a 1 cell, phi = R*S + D, with
\* R = set cells / cells and D the entropy of p = R.
C2_PhiIsRSPlusD ==
    (Called /\ NonDegenerate(pattern)) =>
        /\ Phi = fmul(R, S) + D
        /\ R = true_divide(Cardinality(SetCells(pattern)), Len(pattern.cells))
        /\ D = Entropy(R)

C2_Witness ==
    /\ Called
    /\ NonDegenerate(pattern)
    /\ S > 0
    /\ D < Scale
    /\ Phi > D

\* C3: R, S and D lie in [0, 1]; the set-cell count is at most the cell
\* count and the differing positions at most rank * cell count.
C3_ComponentsInUnitInterval ==
    Called =>
        /\ 0 <= R /\ R <= Scale
        /\ 0 <= S /\ S <= Scale
        /\ 0 <= D /\ D <= Scale
        /\ np_sum(flatten(pattern)) <= Len(pattern.cells)
        /\ integration_loop(pattern, 1, 0, 0).transitions
              <= ndim(pattern) * size(pattern)

C3_Witness ==
    /\ Called
    /\ ndim(pattern) = 3
    /\ S = Scale
    /\ D = Scale
    /\ 2 * R = Scale

\* C4: S = (positions, over every axis once, whose cell differs from the
\* cell one step back along that axis around the torus) / (rank * cells).
C4_IntegrationIsTorusDifferences ==
    (Called /\ NonDegenerate(pattern)) =>
        S = true_divide(Cardinality(DifferingPositions(pattern)),
                        ndim(pattern) * size(pattern))

\* a rank-2 array whose only differences lie across the wrap-around of axis 1
C4_Witness ==
    /\ Called
    /\ pattern.shape = <<3, 2>>
    /\ pattern.cells = <<1, 1, 0, 0, 0, 0>>
    /\ S = true_divide(4, 12)

\* C5: moving the pattern k steps along any axis of the torus leaves
\* (phi, R, S, D) unchanged (a move that maps the pattern onto itself is
\* the same call, and is not measured again).
C5_TranslationInvariant ==
    Called =>
        \A ax \in 1..ndim(pattern), k \in -MaxShift..MaxShift :
            LET moved == CyclicShift(pattern, k, ax)
            IN  moved # pattern => calculate_phi(phi_calc, moved).ret = phi_out

C5_Witness ==
    /\ Called
    /\ NonDegenerate(pattern)
    /\ \E ax \in 1..ndim(pattern), k \in 1..MaxShift :
          /\ CyclicShift(pattern, k, ax) # pattern
          /\ CyclicShift(pattern, k, ax) # CyclicShift(pattern, -k, ax)
          /\ calculate_phi(phi_calc, CyclicShift(pattern, k, ax)).ret = phi_out

\* C6: a call leaves the array and the calculator as they were, returns
\* what the previous call on the same array returned, and returns what a
\* calculator that never measured anything returns.
C6_Pure ==
    [][CallPhi =>
          /\ pattern' = pattern
          /\ phi_calc' = phi_calc
          /\ (Called => phi_out' = phi_out)
          /\ phi_out' = calculate_phi(PhiCalculator, pattern).ret]_vars

C6_Witness ==
    /\ Called
    /\ NonDegenerate(pattern)
    /\ phi_calc = PhiCalculator
    /\ phi_out = calculate_phi(PhiCalculator, pattern).ret
    /\ Phi > 0

----------------------------------------------------------------------------
(* Properties of the embedding and of one trial (SpecTrial) *)

\* a test_*_to_* call has returned its record
Tried == trial # <<>> /\ "result" \in DOMAIN trial
Mid == grid_size \div 2

\* coords with index put in at position ax
InsertAt(coords, ax, index) ==
    [j \in 1..(Len(coords) + 1) |->
        IF j < ax THEN coords[j] ELSE IF j = ax THEN index ELSE coords[j - 1]]

\* the rank-(k-1) array a[.., index, ..], index standing at axis ax
TakeSlice(a, ax, index) ==
    LET shape == [j \in 1..(Len(a.shape) - 1) |->
                     IF j < ax THEN a.shape[j] ELSE a.shape[j + 1]]
    IN  [shape |-> shape,
         cells |-> [j \in 1..Prod(shape) |->
                      a.cells[Ravel(a.shape, InsertAt(Unravel(shape, j), ax, index))]]]

\* C7: the embedded array has one more axis than the source, every axis of
\* length grid_size, holds the source in the slice at index grid_size \div 2
\* of one axis and 0 everywhere else.
C7_EmbeddedAtMidSlice ==
    Tried =>
        /\ ndim(trial.lower) = trial.rank
        /\ ndim(trial.higher) = trial.rank + 1
        /\ \A ax \in 1..ndim(trial.higher) : trial.higher.shape[ax] = grid_size
        /\ \E ax \in 1..ndim(trial.higher) :
              /\ TakeSlice(trial.higher, ax, Mid) = trial.lower
              /\ \A idx \in 1..Len(trial.higher.cells) :
                    Coord(trial.higher.shape, idx, ax) # Mid
                        => trial.higher.cells[idx] = 0

\* a 3x3 source that no transposition or shift maps onto itself
C7_Witness ==
    /\ Tried
    /\ trial.rank = 2
    /\ grid_size = 3
    /\ trial.lower.cells = <<1, 1, 0, 0, 0, 1, 0, 0, 0>>
    /\ TakeSlice(trial.higher, 3, 1) = trial.lower
    /\ np_sum(trial.higher.cells) = 3

\* C8: the added axis is the last one in every transition: the cell at
\* (i1..ik, j) is source(i1..ik) when j = grid_size \div 2, and 0 otherwise.
C8_AddedAxisIsLast ==
    Tried =>
        \A idx \in 1..Len(trial.higher.cells) :
            LET coords == Unravel(trial.higher.shape, idx)
                j      == coords[trial.rank + 1]
                src    == Ravel(trial.lower.shape, SubSeq(coords, 1, trial.rank))
            IN  trial.higher.cells[idx] = IF j = Mid THEN trial.lower.cells[src] ELSE 0

\* C9: phi_lower = 0 gives ratio_phi = 0 and loss_pct = 100, whatever
\* phi_higher is; otherwise ratio_phi = phi_higher / phi_lower and
\* loss_pct = (1 - ratio_phi) * 100.  Every trial returns its record.
C9_RatioPolicy ==
    Tried =>
        /\ trial.result.phi_lower = calculate_phi(PhiCalculator, trial.lower).ret[1]
        /\ trial.result.phi_higher = calculate_phi(PhiCalculator, trial.higher).ret[1]
        /\ IF trial.result.phi_lower = 0
           THEN /\ trial.result.ratio_phi = 0
                /\ trial.result.loss_pct = 100 * Scale
           ELSE /\ trial.result.ratio_phi
                      = fdiv(trial.result.phi_higher, trial.result.phi_lower)
                /\ trial.result.loss_pct = (Scale - trial.result.ratio_phi) * 100

\* the all-ones source, whose embedding is not degenerate
C9_Witness ==
    /\ Tried
    /\ grid_size >= 2
    /\ \A idx \in 1..Len(trial.lower.cells) : trial.lower.cells[idx] = 1
    /\ trial.result.phi_lower = 0
    /\ trial.result.phi_higher > 0
    /\ trial.result.ratio_phi = 0
    /\ trial.result.loss_pct = 100 * Scale

\* what one pass of the loop of _calculate_integration adds to transitions
AxisTransitions(a, axis) == np_sum(not_equal(a, np_roll(a, 1, axis)))

\* transitions at the end of the loop
TotalTransitions(a) == integration_loop(a, 1, 0, 0).transitions

\* the axis the embedding adds, and the axis of the embedded array that
\* source axis ax has become
AddedAxis(rank) == IF rank = 1 THEN 1 ELSE rank + 1
EmbeddedAxis(rank, ax) == IF rank = 1 THEN ax + 1 ELSE ax

\* C29: calculate_phi returns Phi = 0 if and only if the pattern is
\* uniform: a pattern with a 0 and a 1 has a differing adjacent pair on the
\* torus, so its S and its Phi are above 0; hence the phi_lower = 0 branch
\* of the ratio policy (ratio 0, loss 100) is taken exactly for the
\* all-zero and the all-one lower patterns.
C29_ZeroIffUniform ==
    Tried =>
        /\ trial.result.phi_lower = 0 <=> Uniform(trial.lower)
        /\ trial.result.phi_higher = 0 <=> Uniform(trial.higher)
        /\ ~Uniform(trial.lower) =>
              /\ TotalTransitions(trial.lower) > 0
              /\ trial.result.S_lower > 0
              /\ trial.result.phi_lower > 0
        /\ ~Uniform(trial.higher) =>
              /\ TotalTransitions(trial.higher) > 0
              /\ trial.result.S_higher > 0
              /\ trial.result.phi_higher > 0
        /\ (trial.result.ratio_phi = 0 /\ trial.result.loss_pct = 100 * Scale)
              <=> Uniform(trial.lower)

\* an all-one 2D pattern, whose embedding is not uniform
C29_Witness ==
    /\ Tried
    /\ trial.rank = 2
    /\ grid_size = MaxGrid
    /\ \A idx \in 1..Len(trial.lower.cells) : trial.lower.cells[idx] = 1
    /\ trial.result.phi_lower = 0
    /\ trial.result.S_higher > 0
    /\ trial.result.phi_higher > 0
    /\ trial.result.loss_pct = 100 * Scale

\* C28: for a source pattern of rank k and grid_size >= 2, the differing
\* adjacent positions counted in the embedded array of rank k + 1 are those
\* counted in the source plus exactly 2 for every set cell: each original
\* axis contributes what it contributed in the source and the added axis
\* contributes two per set cell.
C28_TwoPerSetCell ==
    (Tried /\ grid_size >= 2) =>
        /\ TotalTransitions(trial.higher)
              = TotalTransitions(trial.lower) + 2 * trial.result.alive_cells_lower
        /\ \A ax \in 1..trial.rank :
              AxisTransitions(trial.higher, EmbeddedAxis(trial.rank, ax))
                  = AxisTransitions(trial.lower, ax)
        /\ AxisTransitions(trial.higher, AddedAxis(trial.rank))
              = 2 * trial.result.alive_cells_lower

\* a 2 x 2 x 2 pattern with differing neighbours, embedded in 2 x 2 x 2 x 2
C28_Witness ==
    /\ Tried
    /\ grid_size = 2
    /\ trial.rank = 3
    /\ trial.result.alive_cells_lower = 3
    /\ TotalTransitions(trial.lower) > 0
    /\ TotalTransitions(trial.higher) = TotalTransitions(trial.lower) + 6

----------------------------------------------------------------------------
(* Properties of run_all_tests (Spec) *)

SeedBase(rank) == IF rank = 1 THEN 100 ELSE IF rank = 2 THEN 1000 ELSE 3000

ResultList(rank) ==
    IF rank = 1 THEN results.test_1d_2d
    ELSE IF rank = 2 THEN results.test_2d_3d ELSE results.test_3d_4d

GeneratedFrom(rank, seed) ==
    IF rank = 1 THEN generate_1d_pattern(Validator, seed)
    ELSE IF rank = 2 THEN generate_2d_pattern(Validator, seed)
    ELSE generate_3d_pattern(Validator, seed)

\* C10: trial i of 1D->2D runs on seed 100 + i, of 2D->3D on 1000 + i and
\* of 3D->4D on 3000 + i, for every grid_size and show_progress and
\* whatever ran before: the trial just recorded stands at position i of
\* its list and measured the pattern generated from that seed.
C10_SeedOfTrial ==
    Tried =>
        /\ trial.pattern_id \in 0..(n_patterns - 1)
        /\ trial.seed = SeedBase(trial.rank) + trial.pattern_id
        /\ trial.lower = GeneratedFrom(trial.rank, SeedBase(trial.rank) + trial.pattern_id)
        /\ Len(ResultList(trial.rank)) = trial.pattern_id + 1
        /\ ResultList(trial.rank)[trial.pattern_id + 1] = trial.result
        /\ trial.result.pattern_id = trial.pattern_id

C10_Witness ==
    /\ Tried
    /\ show_progress
    /\ grid_size = 2
    /\ trial.rank = 3
    /\ trial.pattern_id = 2
    /\ trial.seed = 3002
    /\ Len(results.test_1d_2d) = n_patterns
    /\ Len(results.test_2d_3d) = n_patterns

----------------------------------------------------------------------------
(* Seeds of one run *)

\* C11: within one run_all_tests call of any validator the constructor
\* accepted, no seed is passed to the generators of two different
\* transitions: the three seed sets are pairwise disjoint.
C11_SeedSetsDisjoint ==
    /\ seeds_used.test_1d_2d \cap seeds_used.test_2d_3d = {}
    /\ seeds_used.test_1d_2d \cap seeds_used.test_3d_4d = {}
    /\ seeds_used.test_2d_3d \cap seeds_used.test_3d_4d = {}

----------------------------------------------------------------------------
(* The result lists of run_all_tests *)

Transitions == {"test_1d_2d", "test_2d_3d", "test_3d_4d"}

Running == pc \in {"1d_2d", "2d_3d", "3d_4d", "returned", "raised"}

\* the record at position k of every list has pattern_id k - 1
IdsInOrder ==
    \A t \in Transitions :
        \A k \in 1..Len(results[t]) : results[t][k].pattern_id = k - 1

\* a step of the running call leaves every record it appended where it is
AppendOnly ==
    (Running /\ Running') =>
        \A t \in Transitions :
            /\ Len(results'[t]) >= Len(results[t])
            /\ SubSeq(results'[t], 1, Len(results[t])) = results[t]

\* C12: during and after run_all_tests the record at position i of each
\* result list has pattern_id i (0, 1, 2, ... with no gap, repeat or
\* reordering), a record once appended is never changed or removed, and
\* on return each list holds exactly n_patterns records.
C12_RecordsInOrder ==
    /\ [](IdsInOrder
            /\ (pc = "returned" =>
                    \A t \in Transitions : Len(results[t]) = n_patterns))
    /\ [][AppendOnly]_vars

\* C13: a validator configured with n_patterns <= 0 or grid_size <= 0 is
\* rejected before any pattern is generated or measured: its run_all_tests
\* generates nothing, appends no record and returns no results.
C13_InvalidRejected ==
    (n_patterns <= 0 \/ grid_size <= 0) =>
        /\ trial = <<>>
        /\ results = EmptyResults
        /\ pc # "returned"
        /\ returned = <<>>

----------------------------------------------------------------------------
(* Runs repeated *)

TransitionKey(rank) ==
    IF rank = 1 THEN "test_1d_2d" ELSE IF rank = 2 THEN "test_2d_3d" ELSE "test_3d_4d"

\* C15: two run_all_tests calls with the same (n_patterns, grid_size)
\* return identical record sequences, and a pattern generated again from
\* the same (rank, grid_size, seed) is the same pattern whatever was
\* generated in between: every trial of a later run measures the pattern
\* of its seed and returns the record of the first run.
C15_RunsRepeat ==
    /\ \A j, k \in 1..Len(returned) : returned[j] = returned[k]
    /\ (Tried /\ Len(returned) >= 1) =>
          /\ trial.lower = GeneratedFrom(trial.rank, trial.seed)
          /\ trial.result = returned[1][TransitionKey(trial.rank)][trial.pattern_id + 1]

\* a second run has returned lists whose records differ from one another
C15_Witness ==
    /\ Len(returned) = 2
    /\ pc = "returned"
    /\ grid_size = 2
    /\ n_patterns >= 3
    /\ returned[2].test_2d_3d[1].phi_lower # returned[2].test_2d_3d[2].phi_lower
    /\ returned[2].test_2d_3d = returned[1].test_2d_3d
    /\ trial.rank = 3
    /\ trial.result = returned[1].test_3d_4d[n_patterns]

\* the records of all three lists
AllRecords ==
    UNION {{results[t][k] : k \in 1..Len(results[t])} : t \in Transitions}

\* C27: the embedding keeps the number of set cells: in every record of
\* every transition alive_cells_higher equals alive_cells_lower; the
\* embedded array has exactly grid_size times the cells of the source; and
\* after the embedding and the second measurement the source pattern is
\* the pattern that was generated.
C27_AliveCellsKept ==
    /\ \A r \in AllRecords : r.alive_cells_higher = r.alive_cells_lower
    /\ Tried =>
          /\ trial.result.alive_cells_lower = Cardinality(SetCells(trial.lower))
          /\ Cardinality(SetCells(trial.higher)) = Cardinality(SetCells(trial.lower))
          /\ size(trial.higher) = grid_size * size(trial.lower)
          /\ trial.lower = GeneratedFrom(trial.rank, trial.seed)

\* a 3D pattern with set and unset cells embedded in 4D
C27_Witness ==
    /\ Tried
    /\ trial.rank = 3
    /\ grid_size = MaxGrid
    /\ trial.result.alive_cells_lower >= 2
    /\ trial.result.alive_cells_lower < size(trial.lower)
    /\ trial.result.alive_cells_higher = trial.result.alive_cells_lower
    /\ trial.result \in AllRecords

\* the run has been left by the exception of a progress line: the trial
\* before it returned its record, and the line was due
ProgressRaised ==
    /\ pc = "raised"
    /\ Tried
    /\ show_progress
    /\ (i + 1) % 20 = 0

\* C24: the progress lines are operational only: run_all_tests returns the
\* same records whether show_progress is True or False, and the progress
\* and ETA computation after every 20th trial never raises and never
\* aborts the run, whatever elapsed time the clock gives, 0 included.
C24_ProgressOperational ==
    /\ \A j, k \in 1..Len(returned) : returned[j] = returned[k]
    /\ ~ProgressRaised

----------------------------------------------------------------------------
(* numpy statistics on lists of floats *)

\* squares and variances are kept in units of 1/Half so that sums of squared
\* percentages stay inside the integers
RECURSIVE SqrtBetween(_, _, _)
SqrtBetween(n, lo, hi) ==
    IF lo >= hi THEN lo
    ELSE LET mid == (lo + hi + 1) \div 2
         IN  IF mid * mid <= n THEN SqrtBetween(n, mid, hi)
                               ELSE SqrtBetween(n, lo, mid - 1)

\* the integer square root
isqrt(n) == SqrtBetween(n, 0, 2 ^ 15)

\* np.sqrt of a float
np_sqrt(x) == IF x = NaN \/ x < 0 THEN NaN ELSE isqrt(x) * Half

HasNaN(xs) == \E k \in 1..Len(xs) : xs[k] = NaN

\* np.mean: nan for the empty list
np_mean(xs) ==
    IF Len(xs) = 0 \/ HasNaN(xs) THEN NaN ELSE SumTo(xs, Len(xs)) \div Len(xs)

\* the squared deviation of x from m, in units of 1/Half
SquaredDeviation(x, m) == (((x - m) \div Half) * ((x - m) \div Half)) \div Half

\* np.std(xs, ddof=ddof): nan when there are not more than ddof values
np_std(xs, ddof) ==
    IF Len(xs) <= ddof \/ HasNaN(xs) THEN NaN
    ELSE LET m  == np_mean(xs)
             sq == [k \in 1..Len(xs) |-> SquaredDeviation(xs[k], m)]
         IN  np_sqrt((SumTo(sq, Len(xs)) \div (Len(xs) - ddof)) * Half)

\* x / y on numpy floats: nan and division by zero give nan or inf, no error
np_divide(x, y) ==
    IF x = NaN \/ y = NaN THEN NaN
    ELSE IF y = 0 THEN (IF x = 0 THEN NaN ELSE IF x > 0 THEN Inf ELSE -Inf)
    ELSE fdiv(x, y)

\* xs with x put in before the first larger element (xs ascending)
RECURSIVE InsertSorted(_, _)
InsertSorted(xs, x) ==
    IF xs = <<>> THEN <<x>>
    ELSE IF x <= Head(xs) THEN <<x>> \o xs
    ELSE <<Head(xs)>> \o InsertSorted(Tail(xs), x)

RECURSIVE np_sort(_)
np_sort(xs) ==
    IF xs = <<>> THEN <<>> ELSE InsertSorted(np_sort(Tail(xs)), Head(xs))

\* np.min / np.max: ValueError on the empty list (callers test for it)
np_min(xs) ==
    IF HasNaN(xs) THEN NaN ELSE np_sort(xs)[1]

np_max(xs) ==
    IF HasNaN(xs) THEN NaN ELSE np_sort(xs)[Len(xs)]

\* np.percentile(xs, q), linear interpolation between the two neighbours
np_percentile(xs, q) ==
    IF Len(xs) = 0 \/ HasNaN(xs) THEN NaN
    ELSE LET sorted == np_sort(xs)
             pos    == q * (Len(xs) - 1)
             lo     == pos \div 100 + 1
             hi     == IF lo < Len(xs) THEN lo + 1 ELSE lo
         IN  sorted[lo] + ((sorted[hi] - sorted[lo]) * (pos % 100)) \div 100

np_median(xs) == np_percentile(xs, 50)

----------------------------------------------------------------------------
(* calculate_statistics, save_results and run_multisize_validation *)

TestNames == {"test_1d_2d", "test_2d_3d", "test_3d_4d"}

Losses(test_data) == [k \in 1..Len(test_data) |-> test_data[k].loss_pct]

\* np.min(losses) raises ValueError on an empty list
statistics_raise(res) == \E test_name \in DOMAIN res : Len(res[test_name]) = 0

\* DimensionalCascadeValidator.calculate_statistics(results), no list empty
calculate_statistics(self, res) ==
    [test_name \in DOMAIN res |->
        LET losses == Losses(res[test_name])
        IN  [n               |-> Len(losses),
             mean_loss_pct   |-> np_mean(losses),
             std_loss_pct    |-> np_std(losses, 1),
             sem_loss_pct    |-> np_divide(np_std(losses, 1), np_sqrt(Len(losses) * Scale)),
             min_loss_pct    |-> np_min(losses),
             max_loss_pct    |-> np_max(losses),
             median_loss_pct |-> np_median(losses),
             q25_loss_pct    |-> np_percentile(losses, 25),
             q75_loss_pct    |-> np_percentile(losses, 75)]]

\* the dictionary save_results writes; the timestamps are left out
save_results(self, res, stats, gsize) ==
    [filename |-> <<"dimensional_cascade", self.n_patterns, gsize>>,
     metadata |-> [test_type |-> "UNIFIED_DIMENSIONAL_CASCADE",
                   config    |-> [n_patterns  |-> self.n_patterns,
                                  grid_size   |-> gsize,
                                  seed_ranges |-> [t1d_2d |-> "100-199",
                                                   t2d_3d |-> "1000-1099",
                                                   t3d_4d |-> "3000-3099"]]],
     test_1d_2d |-> res.test_1d_2d,
     test_2d_3d |-> res.test_2d_3d,
     test_3d_4d |-> res.test_3d_4d,
     statistics |-> stats]

SizesOf(grid_sizes) == {grid_sizes[k] : k \in 1..Len(grid_sizes)}

\* np.min(means) raises ValueError when grid_sizes is empty
summary_raise(grid_sizes) == Len(grid_sizes) = 0

\* create_multisize_summary(all_stats, grid_sizes, n_patterns)
create_multisize_summary(all_stats, grid_sizes, n) ==
    [metadata |-> [test_type           |-> "MULTI_SIZE_GRID_SENSITIVITY",
                   grid_sizes          |-> grid_sizes,
                   n_patterns_per_size |-> n,
                   total_patterns      |-> n * Len(grid_sizes) * 3],
     results_by_size |-> [sz \in SizesOf(grid_sizes) |-> all_stats[sz]],
     consistency_analysis |->
        [test_name \in TestNames |->
            LET means == [k \in 1..Len(grid_sizes) |->
                            all_stats[grid_sizes[k]][test_name].mean_loss_pct]
                stds  == [k \in 1..Len(grid_sizes) |->
                            all_stats[grid_sizes[k]][test_name].std_loss_pct]
            IN  [mean_across_sizes |-> np_mean(means),
                 std_across_sizes  |-> np_std(means, 1),
                 min_mean          |-> np_min(means),
                 max_mean          |-> np_max(means),
                 mean_std          |-> np_mean(stds),
                 coefficient_of_variation |->
                     IF np_divide(np_std(means, 1), np_mean(means)) \in {NaN, Inf, -Inf}
                     THEN np_divide(np_std(means, 1), np_mean(means))
                     ELSE np_divide(np_std(means, 1), np_mean(means)) * 100]]]

\* d with key k bound to v (d[k] = v on a Python dict)
DictSet(d, k, v) == [x \in DOMAIN d \cup {k} |-> IF x = k THEN v ELSE d[x]]

\* the sequences of at most n elements of the set elems
SeqsUpTo(elems, n) == UNION {[1..len -> elems] : len \in 0..n}

\* run_multisize_validation(grid_sizes, n_patterns) has been called: the
\* two dictionaries are empty
InitRunner ==
    /\ NoPhiCaller
    /\ phi_calc = PhiCalculator
    /\ Idle
    /\ NoThreads
    /\ NoConsistency
    /\ NoCleanup
    /\ runner \in [grid_sizes  : SeqsUpTo(0..MaxGrid, MaxSizes),
                    n_patterns  : 0..MaxRunnerPatterns,
                    at          : {"loop"},
                    all_results : {<<>>},
                    all_stats   : {<<>>},
                    saved       : {<<>>},
                    summary     : {<<>>},
                    summaries   : {0}]

\* for grid_size in grid_sizes: validator = DimensionalCascadeValidator(...)
Construct ==
    /\ runner # <<>>
    /\ runner.at = "loop"
    /\ Len(runner.saved) < Len(runner.grid_sizes)
    /\ n_patterns' = runner.n_patterns
    /\ grid_size' = runner.grid_sizes[Len(runner.saved) + 1]
    /\ phi_calc' = PhiCalculator
    /\ pc' = "ready"
    /\ i' = 0
    /\ results' = EmptyResults
    /\ trial' = <<>>
    /\ seeds_used' = NoSeeds
    /\ runner' = [runner EXCEPT !.at = "running"]
    /\ UNCHANGED <<pattern, phi_out, show_progress, returned,
                   np_random, threads, consistency, fs, util>>

\* results = validator.run_all_tests(show_progress=True)
BeginShowing ==
    /\ runner # <<>>
    /\ Begin
    /\ show_progress'

\* an exception of run_all_tests leaves run_multisize_validation
RunRaised ==
    /\ runner # <<>>
    /\ runner.at = "running"
    /\ pc = "raised"
    /\ runner' = [runner EXCEPT !.at = "raised"]
    /\ pc' = "idle"
    /\ UNCHANGED <<pattern, phi_out, phi_calc, n_patterns, grid_size, show_progress,
                   i, results, trial, seeds_used, returned,
                   np_random, threads, consistency, fs, util>>

\* the loop body with the summary made inside it
StoreStats_summarises ==
    /\ runner # <<>>
    /\ runner.at = "running"
    /\ pc = "returned"
    /\ pc' = "idle"
    /\ IF statistics_raise(results)
       THEN runner' = [runner EXCEPT !.at = "raised"]
       ELSE LET stats == calculate_statistics(Validator, results)
                saved == save_results(Validator, results, stats, grid_size)
                all   == DictSet(runner.all_stats, grid_size, stats)
            IN  runner' = [runner EXCEPT
                             !.at = "loop",
                             !.saved = Append(@, saved),
                             !.all_results = DictSet(@, grid_size, results),
                             !.all_stats = all,
                             !.summary = create_multisize_summary(
                                             all, SubSeq(runner.grid_sizes, 1,
                                                         Len(runner.saved) + 1),
                                             runner.n_patterns),
                             !.summaries = @ + 1]
    /\ UNCHANGED <<pattern, phi_out, phi_calc, n_patterns, grid_size, show_progress,
                   i, results, trial, seeds_used, returned,
                   np_random, threads, consistency, fs, util>>

\* stats = validator.calculate_statistics(results); save_results; the two
\* dictionaries get the entries of this grid size
StoreStats ==
    /\ runner # <<>>
    /\ runner.at = "running"
    /\ pc = "returned"
    /\ pc' = "idle"
    /\ IF statistics_raise(results)
       THEN runner' = [runner EXCEPT !.at = "raised"]
       ELSE LET stats == calculate_statistics(Validator, results)
                saved == save_results(Validator, results, stats, grid_size)
            IN  runner' = [runner EXCEPT
                             !.at = "loop",
                             !.saved = Append(@, saved),
                             !.all_results = DictSet(@, grid_size, results),
                             !.all_stats = DictSet(@, grid_size, stats)]
    /\ UNCHANGED <<pattern, phi_out, phi_calc, n_patterns, grid_size, show_progress,
                   i, results, trial, seeds_used, returned,
                   np_random, threads, consistency, fs, util>>

\* after the loop: summary = create_multisize_summary(...), save_summary,
\* print_multisize_summary, return
Summarise ==
    /\ runner # <<>>
    /\ runner.at = "loop"
    /\ Len(runner.saved) >= Len(runner.grid_sizes)
    /\ IF summary_raise(runner.grid_sizes)
       THEN runner' = [runner EXCEPT !.at = "raised"]
       ELSE runner' = [runner EXCEPT
                         !.at = "complete",
                         !.summary = create_multisize_summary(
                                         runner.all_stats, runner.grid_sizes,
                                         runner.n_patterns),
                         !.summaries = @ + 1]
    /\ UNCHANGED <<pattern, phi_out, phi_calc, n_patterns, grid_size, show_progress,
                   pc, i, results, trial, seeds_used, returned,
                   np_random, threads, consistency, fs, util>>

NextRunner ==
    \/ Construct
    \/ BeginShowing
    \/ Trial1d2d
    \/ Done1d2d
    \/ Trial2d3d
    \/ Done2d3d
    \/ Trial3d4d
    \/ Return
    \/ RunRaised
    \/ StoreStats
    \/ Summarise

SpecRunner == InitRunner /\ [][NextRunner]_vars

\* the grid sizes whose statistics are stored
Stored == Len(runner.saved)

\* C16: run_multisize_validation takes the grid sizes in the configured
\* order, finishes the three transitions (n_patterns trials each) and the
\* statistics of one size before it starts the next, and makes the
\* cross-size consistency analysis exactly once, only when the statistics
\* of every configured size exist.
C16_SizesInOrder ==
    /\ Stored <= Len(runner.grid_sizes)
    /\ \A k \in 1..Stored :
          /\ runner.saved[k].metadata.config.grid_size = runner.grid_sizes[k]
          /\ \A t \in TestNames :
                /\ Len(runner.saved[k][t]) = runner.n_patterns
                /\ runner.saved[k].statistics[t].n = runner.n_patterns
    /\ DOMAIN runner.all_stats = {runner.grid_sizes[k] : k \in 1..Stored}
    /\ runner.at = "running" =>
          /\ grid_size = runner.grid_sizes[Stored + 1]
          /\ n_patterns = runner.n_patterns
    /\ runner.summaries <= 1
    /\ runner.summaries = 1 <=> runner.summary # <<>>
    /\ runner.summary # <<>> =>
          /\ Stored = Len(runner.grid_sizes)
          /\ runner.at = "complete"
          /\ DOMAIN runner.summary.results_by_size = SizesOf(runner.grid_sizes)
          /\ \A sz \in SizesOf(runner.grid_sizes) :
                runner.summary.results_by_size[sz] = runner.all_stats[sz]

\* two different sizes, the larger first, two patterns each
C16_Witness ==
    /\ runner.at = "complete"
    /\ runner.grid_sizes = <<2, 1>>
    /\ runner.n_patterns = 2
    /\ Stored = 2
    /\ runner.saved[1].statistics # runner.saved[2].statistics
    /\ runner.summaries = 1
    /\ runner.summary.consistency_analysis.test_2d_3d.std_across_sizes # NaN

\* run_multisize_validation([grid_size], n_patterns): one grid size, up to
\* MaxPatterns patterns a transition.  The interpreter runs the call one
\* statement after the other until it returns or raises.
InitOneSize ==
    /\ NoPhiCaller
    /\ phi_calc = PhiCalculator
    /\ Idle
    /\ NoThreads
    /\ NoConsistency
    /\ NoCleanup
    /\ runner \in [grid_sizes  : {<<g>> : g \in 0..MaxGrid},
                    n_patterns  : -1..MaxPatterns,
                    at          : {"loop"},
                    all_results : {<<>>},
                    all_stats   : {<<>>},
                    saved       : {<<>>},
                    summary     : {<<>>},
                    summaries   : {0}]

\* run_multisize_validation has returned or has been left by an exception:
\* no statement is left to run
Halted == runner.at \in {"complete", "raised"}

\* weak fairness of NextRunner, WF_vars(NextRunner), written out with
\* Halted as the states in which NextRunner is not enabled
RunsOn == []<>Halted \/ []<><<NextRunner>>_vars

SpecOneSize == InitOneSize /\ [][NextRunner]_vars /\ RunsOn

\* validator.calculate_statistics(results) has been called on the lists the
\* last run returned
StatisticsCalled == pc = "idle" /\ Len(returned) > 0

\* C25: calculate_statistics returns a new mapping with exactly one entry
\* for every transition key of its input; the n of an entry is the number
\* of records of that transition (n_patterns after a full run), its values
\* are ordered min <= q25 <= median <= q75 <= max and min <= mean <= max;
\* the input records are left as they were.
C25_StatisticsOrdered ==
    StatisticsCalled =>
        /\ Len(runner.saved) = Len(returned)
        /\ LET res   == returned[Len(returned)]
               stats == runner.saved[Len(returned)].statistics
           IN  /\ DOMAIN stats = DOMAIN res
               /\ \A t \in DOMAIN res :
                     /\ stats[t].n = Len(res[t])
                     /\ stats[t].n = n_patterns
                     /\ stats[t].min_loss_pct <= stats[t].q25_loss_pct
                     /\ stats[t].q25_loss_pct <= stats[t].median_loss_pct
                     /\ stats[t].median_loss_pct <= stats[t].q75_loss_pct
                     /\ stats[t].q75_loss_pct <= stats[t].max_loss_pct
                     /\ stats[t].min_loss_pct <= stats[t].mean_loss_pct
                     /\ stats[t].mean_loss_pct <= stats[t].max_loss_pct
               /\ results = res

\* the seeds a range string of the metadata stands for ("first-last")
SeedsOfRange(range) ==
    IF range = "100-199" THEN 100..199
    ELSE IF range = "1000-1099" THEN 1000..1099
    ELSE IF range = "3000-3099" THEN 3000..3099
    ELSE {}

\* the seed_ranges key of a list of records
RangeKey(test_name) ==
    IF test_name = "test_1d_2d" THEN "t1d_2d"
    ELSE IF test_name = "test_2d_3d" THEN "t2d_3d"
    ELSE "t3d_4d"

\* C30: the seed ranges in the metadata of the saved output (1D->2D
\* 100-199, 2D->3D 1000-1099, 3D->4D 3000-3099) are exactly the seeds the
\* run used for the records saved with them, for every n_patterns the
\* validator accepts.
C30_SeedRangesAsUsed ==
    (StatisticsCalled /\ Stored = Len(returned)) =>
        \A t \in TestNames :
            /\ runner.saved[Stored][t] = results[t]
            /\ SeedsOfRange(runner.saved[Stored].metadata.config.seed_ranges[RangeKey(t)])
                  = seeds_used[t]

\* a step that computes the statistics of the run
StatisticsComputed == Len(runner'.saved) = Len(runner.saved) + 1

\* C23: in one run_all_tests call the transitions run in the order 1D->2D,
\* 2D->3D, 3D->4D: a 2D->3D trial is made only when all n_patterns 1D->2D
\* trials are recorded, a 3D->4D trial only when all 2D->3D trials are
\* recorded; the statistics of the transitions are computed only when all
\* their trials are recorded; and every run that has begun ends.
C23_TransitionsInOrder ==
    /\ [](/\ Len(results.test_2d_3d) > 0 => Len(results.test_1d_2d) = n_patterns
          /\ Len(results.test_3d_4d) > 0 => Len(results.test_2d_3d) = n_patterns)
    /\ [][StatisticsComputed =>
            /\ pc = "returned"
            /\ \A t \in TestNames :
                  /\ Len(results[t]) = n_patterns
                  /\ runner'.saved[Len(runner'.saved)].statistics[t].n
                         = n_patterns]_vars
    /\ (pc = "1d_2d") ~> (pc \in {"returned", "raised"})

\* a full run with the progress lines, its statistics stored
C23_Witness ==
    /\ runner.at = "complete"
    /\ Stored = 1
    /\ show_progress
    /\ n_patterns = MaxPatterns
    /\ \A t \in TestNames : Len(results[t]) = MaxPatterns
    /\ runner.saved[1].statistics.test_3d_4d.n = MaxPatterns

----------------------------------------------------------------------------
(* Trials of the test scripts, in flight together                          *)
(* tests/test_grid_size_sensitivity.py and tests/test_highlife_validation.py *)

\* numpy's process-wide generator.  np.random.seed(seed) puts it in the
\* state of RandomState(seed); every draw reads the state and advances it.
np_random_seed(seed) == RandomState(seed).state

\* np.random.uniform(low, high) from state x: the value and the next state
np_random_uniform(x, low, high) ==
    LET nxt == rng_next(x)
        u   == nxt % Scale
    IN  [value |-> low + fmul(high - low, u), state |-> nxt]

\* the states the generator passes through in n draws from x
RECURSIVE np_random_states(_, _)
np_random_states(x, n) ==
    IF n = 0 THEN <<>> ELSE <<rng_next(x)>> \o np_random_states(rng_next(x), n - 1)

\* np.random.choice([0, 1], size=shape, p=[1 - density, density]) from state
\* x: a cell is 0 when its uniform draw is below 1 - density
np_random_choice(x, shape, density) ==
    LET draws == np_random_states(x, Prod(shape))
    IN  [value |-> [shape |-> shape,
                    cells |-> [k \in 1..Prod(shape) |->
                                 IF draws[k] % Scale < Scale - density THEN 0 ELSE 1]],
         state |-> IF Prod(shape) = 0 THEN x ELSE draws[Prod(shape)]]

Tenth(k) == (k * Scale) \div 10

\* the two scripts: the rank of the pattern they generate and their seed_start
Scripts == {"grid_size_sensitivity", "highlife_validation"}
ScriptRank(script) == IF script = "grid_size_sensitivity" THEN 1 ELSE 2
SeedStart(script) == IF script = "grid_size_sensitivity" THEN 6000 ELSE 5000

\* embed_1d_to_2d / embed_2d_to_3d: the pattern goes into the middle slice
\* of the added last axis
embed(grid, extent) ==
    LET rank == ndim(grid)
    IN  setitem(np_zeros([ax \in 1..(rank + 1) |->
                            IF ax <= rank THEN grid.shape[ax] ELSE extent]),
                rank + 1, extent \div 2, grid)

\* measure_phi(grid): a fresh PhiCalculator each time
measure_phi(grid) == calculate_phi(PhiCalculator, grid).ret

\* test_1d_to_2d_size / test_2d_to_3d_highlife after the pattern is generated
script_record(script, pattern_id, extent, grid) ==
    LET phi_lo == measure_phi(grid)[1]
        phi_hi == measure_phi(embed(grid, extent))[1]
        ratio  == IF phi_lo > 0 THEN fdiv(phi_hi, phi_lo) ELSE 0
    IN  [pattern_id |-> pattern_id,
         grid_size  |-> extent,
         loss_pct   |-> (Scale - ratio) * 100,
         ratio_phi  |-> ratio,
         phi_lower  |-> phi_lo,
         phi_higher |-> phi_hi]

\* generate_pattern_1d / generate_pattern_2d run from start to end with
\* nothing in between
generate_pattern(script, extent, seed) ==
    LET density == np_random_uniform(np_random_seed(seed), Tenth(3), Tenth(6))
        shape   == [ax \in 1..ScriptRank(script) |-> extent]
    IN  np_random_choice(density.state, shape, density.value).value

\* the trials in flight
Threads == {"A", "B"}

InitThreads ==
    /\ NoPhiCaller
    /\ phi_calc = PhiCalculator
    /\ Idle
    /\ NoRunner
    /\ NoConsistency
    /\ NoCleanup
    /\ np_random = 0
    /\ threads \in [Threads -> [script     : Scripts,
                                 pattern_id : 0..MaxTrialId,
                                 grid_size  : 1..MaxGrid,
                                 at         : {"called"},
                                 density    : {0},
                                 grid       : {<<>>},
                                 result     : {<<>>}]]

\* np.random.seed(seed)
SeedGlobal(t) ==
    /\ threads[t].at = "called"
    /\ np_random' = np_random_seed(SeedStart(threads[t].script) + threads[t].pattern_id)
    /\ threads' = [threads EXCEPT ![t].at = "seeded"]
    /\ UNCHANGED <<pattern, phi_out, phi_calc, n_patterns, grid_size, show_progress,
                   pc, i, results, trial, seeds_used, returned,
                   runner, consistency, fs, util>>

\* density = np.random.uniform(0.3, 0.6)
DrawDensity(t) ==
    /\ threads[t].at = "seeded"
    /\ LET d == np_random_uniform(np_random, Tenth(3), Tenth(6))
       IN  /\ np_random' = d.state
           /\ threads' = [threads EXCEPT ![t].at = "density", ![t].density = d.value]
    /\ UNCHANGED <<pattern, phi_out, phi_calc, n_patterns, grid_size, show_progress,
                   pc, i, results, trial, seeds_used, returned,
                   runner, consistency, fs, util>>

\* return np.random.choice([0, 1], size=..., p=[1-density, density])
DrawPattern(t) ==
    /\ threads[t].at = "density"
    /\ LET shape == [ax \in 1..ScriptRank(threads[t].script) |-> threads[t].grid_size]
           c     == np_random_choice(np_random, shape, threads[t].density)
       IN  /\ np_random' = c.state
           /\ threads' = [threads EXCEPT ![t].at = "generated", ![t].grid = c.value]
    /\ UNCHANGED <<pattern, phi_out, phi_calc, n_patterns, grid_size, show_progress,
                   pc, i, results, trial, seeds_used, returned,
                   runner, consistency, fs, util>>

\* the measurements, the embedding and the returned dictionary
MeasureTrial(t) ==
    /\ threads[t].at = "generated"
    /\ threads' = [threads EXCEPT
                      ![t].at = "returned",
                      ![t].result = script_record(threads[t].script, threads[t].pattern_id,
                                                  threads[t].grid_size, threads[t].grid)]
    /\ UNCHANGED np_random
    /\ UNCHANGED <<pattern, phi_out, phi_calc, n_patterns, grid_size, show_progress,
                   pc, i, results, trial, seeds_used, returned,
                   runner, consistency, fs, util>>

NextThreads ==
    \/ \E t \in Threads : SeedGlobal(t)
    \/ \E t \in Threads : DrawDensity(t)
    \/ \E t \in Threads : DrawPattern(t)
    \/ \E t \in Threads : MeasureTrial(t)

SpecThreads == InitThreads /\ [][NextThreads]_vars

\* the record of the same trial run with no other trial in flight
AloneRecord(th) ==
    script_record(th.script, th.pattern_id, th.grid_size,
                  generate_pattern(th.script, th.grid_size,
                                   SeedStart(th.script) + th.pattern_id))

\* C14: trials share no mutable state: a trial run while other trials are
\* in flight, in any interleaving, returns the record it returns when run
\* alone; no other trial can reseed the random source between a
\* generator's seeding and its draws.
C14_TrialsIndependent ==
    \A t \in Threads :
        threads[t].at = "returned" => threads[t].result = AloneRecord(threads[t])

----------------------------------------------------------------------------
(* run_grid_size_validation: the consistency check across grid sizes *)

\* x < y on floats: False when one side is nan
float_lt(x, y) == x # NaN /\ y # NaN /\ x < y

MeanLosses == {80 * Scale + k * ((5 * Scale) \div 2) : k \in 0..MaxMeanSteps}

\* size_stats has been filled: the mean loss of every grid size is known
InitConsistency ==
    /\ NoPhiCaller
    /\ phi_calc = PhiCalculator
    /\ Idle
    /\ NoThreads
    /\ NoRunner
    /\ NoCleanup
    /\ consistency \in [means         : SeqsUpTo(MeanLosses, MaxScriptSizes),
                         at            : {"comparison"},
                         mean_of_means : {0},
                         std_of_means  : {0},
                         printed       : {<<>>},
                         output        : {<<>>}]

ConsistencyFrame ==
    UNCHANGED <<pattern, phi_out, phi_calc, n_patterns, grid_size, show_progress,
                pc, i, results, trial, seeds_used, returned,
                np_random, threads, runner, fs, util>>

\* the comparison with <= in the place of <
CheckConsistency_at_most ==
    /\ consistency # <<>>
    /\ consistency.at = "comparison"
    /\ LET mean_of_means == np_mean(consistency.means)
           std_of_means  == np_std(consistency.means, 1)
       IN  consistency' = [consistency EXCEPT
                             !.at = "checked",
                             !.mean_of_means = mean_of_means,
                             !.std_of_means = std_of_means,
                             !.printed = IF float_lt(std_of_means, 5 * Scale)
                                            \/ std_of_means = 5 * Scale
                                         THEN "VALIDATION PASSED"
                                         ELSE "VALIDATION FAILED"]
    /\ ConsistencyFrame

\* "Check consistency": means, mean_of_means, std_of_means and the verdict
CheckConsistency ==
    /\ consistency # <<>>
    /\ consistency.at = "comparison"
    /\ LET mean_of_means == np_mean(consistency.means)
           std_of_means  == np_std(consistency.means, 1)
       IN  consistency' = [consistency EXCEPT
                             !.at = "checked",
                             !.mean_of_means = mean_of_means,
                             !.std_of_means = std_of_means,
                             !.printed = IF float_lt(std_of_means, 5 * Scale)
                                         THEN "VALIDATION PASSED"
                                         ELSE "VALIDATION FAILED"]
    /\ ConsistencyFrame

\* "Save results": the summary of the output file
SaveConsistency ==
    /\ consistency # <<>>
    /\ consistency.at = "checked"
    /\ consistency' = [consistency EXCEPT
                          !.at = "saved",
                          !.output = [overall_mean     |-> consistency.mean_of_means,
                                      std_across_sizes |-> consistency.std_of_means]]
    /\ ConsistencyFrame

NextConsistency ==
    \/ CheckConsistency
    \/ SaveConsistency

SpecConsistency == InitConsistency /\ [][NextConsistency]_vars

\* the sample variance (ddof = 1) of the means is defined and below v,
\* v in units of 1/Half
SampleVarianceBelow(means, v) ==
    /\ Len(means) >= 2
    /\ LET m  == SumTo(means, Len(means)) \div Len(means)
           sq == [k \in 1..Len(means) |-> SquaredDeviation(means[k], m)]
       IN  SumTo(sq, Len(means)) \div (Len(means) - 1) < v

\* C17: the size-sensitivity check prints "passed" (size-independent)
\* exactly when the sample standard deviation of the per-size mean losses
\* is strictly below 5.0 percentage points, and "failed" in every other
\* case, a deviation of exactly 5.0 included.
C17_PassedBelowFive ==
    (consistency # <<>> /\ consistency.at # "comparison") =>
        /\ consistency.printed \in {"VALIDATION PASSED", "VALIDATION FAILED"}
        /\ consistency.printed = "VALIDATION PASSED"
              <=> SampleVarianceBelow(consistency.means, 5 * 5 * Half)

\* three sizes whose means have a deviation of exactly 5.0
C17_Witness ==
    /\ consistency # <<>>
    /\ consistency.at = "checked"
    /\ consistency.means = <<80 * Scale, 85 * Scale, 90 * Scale>>
    /\ consistency.std_of_means = 5 * Scale
    /\ consistency.printed = "VALIDATION FAILED"

----------------------------------------------------------------------------
(* test_edge_cases: the checkerboard and the single cell *)

\* grid = np.zeros((rows, cols), dtype=int) with even extents
InitLattice ==
    /\ pattern \in {np_zeros(<<2 * h1, 2 * h2>>) : h1, h2 \in 1..MaxHalfExtent}
    /\ phi_out = <<>>
    /\ phi_calc = PhiCalculator
    /\ Idle
    /\ Elsewhere

Blank == phi_out = <<>> /\ \A idx \in 1..Len(pattern.cells) : pattern.cells[idx] = 0

LatticeFrame ==
    UNCHANGED <<phi_out, phi_calc, n_patterns, grid_size, show_progress, pc, i,
                results, trial, seeds_used, returned, elsewhere>>

\* grid_checker[::2, ::2] = 1; grid_checker[1::2, 1::2] = 1
WriteCheckerboard ==
    /\ Blank
    /\ pattern' = [pattern EXCEPT !.cells =
                      [idx \in 1..Len(pattern.cells) |->
                          LET row == Coord(pattern.shape, idx, 1)
                              col == Coord(pattern.shape, idx, 2)
                          IN  IF row % 2 = col % 2 THEN 1 ELSE 0]]
    /\ LatticeFrame

\* grid_single[row, col] = 1 on the 20 x 20 lattice (the test writes [10, 10])
WriteSingleCell ==
    /\ Blank
    /\ pattern.shape = <<LatticeSize, LatticeSize>>
    /\ \E row, col \in 0..(LatticeSize - 1) :
          pattern' = [pattern EXCEPT !.cells[row * LatticeSize + col + 1] = 1]
    /\ LatticeFrame

NextLattice ==
    \/ WriteCheckerboard
    \/ WriteSingleCell
    \/ CallPhi

SpecLattice == InitLattice /\ [][NextLattice]_vars

\* a rank-2 array with even extents whose every cell differs from the cell
\* next to it along either axis
Checkerboard(a) ==
    /\ ndim(a) = 2
    /\ a.shape[1] % 2 = 0
    /\ a.shape[2] % 2 = 0
    /\ \A idx \in 1..Len(a.cells) :
          /\ a.cells[idx] # a.cells[StepsBack(a.shape, idx, 1, 1)]
          /\ a.cells[idx] # a.cells[StepsBack(a.shape, idx, 2, 1)]

\* C18: a checkerboard on the 20 x 20 lattice, and on any rank-2 lattice
\* with even extents, measures R = 1/2, S = 1 and D = 1, so that Phi > 1.0.
C18_Checkerboard ==
    (Called /\ Checkerboard(pattern)) =>
        /\ R = Scale \div 2
        /\ S = Scale
        /\ D = Scale
        /\ Phi > Scale

C18_Witness ==
    /\ Called
    /\ pattern.shape = <<LatticeSize, LatticeSize>>
    /\ Checkerboard(pattern)
    /\ pattern.cells[1] = 1
    /\ Phi = Scale + Scale \div 2

\* the positions along axis ax whose cell differs from the one a step back
DifferingAlong(a, ax) == {q \in DifferingPositions(a) : q[1] = ax}

\* C19: a 20 x 20 lattice with exactly one set cell, wherever it is, has
\* exactly 2 differing positions along each axis (S = 4/800), R = 1/400,
\* and 0 < Phi < 0.5.
C19_SingleCell ==
    (Called /\ pattern.shape = <<LatticeSize, LatticeSize>>
            /\ Cardinality(SetCells(pattern)) = 1) =>
        /\ Cardinality(DifferingAlong(pattern, 1)) = 2
        /\ Cardinality(DifferingAlong(pattern, 2)) = 2
        /\ S = true_divide(4, 2 * LatticeSize * LatticeSize)
        /\ R = true_divide(1, LatticeSize * LatticeSize)
        /\ Phi > 0
        /\ Phi < Scale \div 2

\* the cell the test writes
C19_Witness ==
    /\ Called
    /\ pattern.shape = <<LatticeSize, LatticeSize>>
    /\ SetCells(pattern) = {10 * LatticeSize + 10 + 1}
    /\ Phi = fmul(R, S) + D
    /\ D > 0

----------------------------------------------------------------------------
(* cleanup_utility.py: cleanup_generated_files, uninstall_all,             *)
(* reset_to_fresh and main                                                 *)
(*                                                                         *)
(* The file tree under the working directory is the set of its paths, a    *)
(* path being the tuple of names from the working directory down.  A name  *)
(* of DirNames is a directory, every other name a file.                    *)

DirNames == {"validated_results", "publication_figures", "__pycache__", "venv",
             "env", "reviewer_env", ".venv", "tests", "run1"}

\* the paths a starting tree is made of
Paths ==
    {<<"validated_results">>,
     <<"validated_results", "results.json">>,
     <<"validated_results", "run.log">>,
     <<"validated_results", "__pycache__">>,
     <<"validated_results", "__pycache__", "load.pyc">>,
     <<"validated_results", "run1">>,
     <<"validated_results", "run1", "notes.tmp">>,
     <<"publication_figures">>,
     <<"publication_figures", "figure1.png">>,
     <<"venv">>,
     <<"__pycache__">>,
     <<"__pycache__", "validate.pyc">>,
     <<"debug.log">>,
     <<"tests">>,
     <<"tests", "results.json">>}

Parent(path) == SubSeq(path, 1, Len(path) - 1)

\* every path of the tree lies in a directory of the tree
IsTree(tree) == \A path \in tree : Len(path) = 1 \/ Parent(path) \in tree

IsDir(path) == path[Len(path)] \in DirNames

\* file.endswith(suffix), on the names of Paths
EndsWith(name, suffix) ==
    IF suffix = ".pyc" THEN name \in {"load.pyc", "validate.pyc"}
    ELSE IF suffix = ".log" THEN name \in {"run.log", "debug.log"}
    ELSE IF suffix = ".tmp" THEN name \in {"notes.tmp"}
    ELSE IF suffix = ".json" THEN name \in {"results.json"}
    ELSE FALSE

\* path lies at or below top
Below(path, top) == Len(path) >= Len(top) /\ SubSeq(path, 1, Len(top)) = top

\* shutil.rmtree(top), after the os.path.exists(top) test
rmtree(tree, top) == {path \in tree : ~Below(path, top)}

\* for root, dirs, files in os.walk("."): if "__pycache__" in dirs: rmtree
remove_pycache(tree) ==
    {path \in tree :
        ~\E k \in 1..Len(path) : path[k] = "__pycache__"}

\* for root, dirs, files in os.walk("."): os.remove every file that ends
\* with one of the suffixes
remove_files(tree, suffixes) ==
    {path \in tree :
        IsDir(path) \/ ~\E suffix \in suffixes : EndsWith(path[Len(path)], suffix)}

\* str.lower() on what the user types
Answers == {"", "n", "y", "Y", "yes", "YES", "Yes", "DELETE MY DATA",
            "delete my data"}
lower(answer) ==
    IF answer = "Y" THEN "y"
    ELSE IF answer \in {"YES", "Yes"} THEN "yes"
    ELSE IF answer = "DELETE MY DATA" THEN "delete my data"
    ELSE answer

\* the removals of cleanup_generated_files after the confirmation
cleanup_removals(tree) ==
    remove_files(
        remove_files(
            remove_pycache(rmtree(tree, <<"publication_figures">>)),
            {".pyc"}),
        {".log"})

\* the removals of uninstall_all after the confirmation
uninstall_removals(tree) ==
    remove_files(
        remove_pycache(
            rmtree(rmtree(rmtree(rmtree(rmtree(tree, <<"venv">>), <<"env">>),
                                 <<"reviewer_env">>), <<".venv">>),
                   <<"publication_figures">>)),
        {".pyc", ".log", ".tmp"})

\* the utility is started in some working directory
InitCleanup ==
    /\ NoPhiCaller
    /\ phi_calc = PhiCalculator
    /\ Idle
    /\ NoThreads
    /\ NoRunner
    /\ NoConsistency
    /\ fs \in {tree \in SUBSET Paths : IsTree(tree)}
    /\ util = <<>>

CleanupFrame ==
    UNCHANGED <<pattern, phi_out, phi_calc, n_patterns, grid_size, show_progress,
                pc, i, results, trial, seeds_used, returned,
                np_random, threads, runner, consistency>>

\* cleanup_generated_files with [Y/n] in the place of [y/N]: the empty
\* answer confirms
cleanup_generated_files_default_yes ==
    /\ \E confirm \in Answers :
          IF lower(confirm) \notin {"y", ""}
          THEN /\ fs' = fs
               /\ util' = [option |-> "cleanup", confirm |-> confirm,
                           before |-> fs, printed |-> "Cancelled."]
          ELSE /\ fs' = cleanup_removals(fs)
               /\ util' = [option |-> "cleanup", confirm |-> confirm,
                           before |-> fs, printed |-> "CLEANUP COMPLETE"]
    /\ CleanupFrame

\* python cleanup_utility.py cleanup
cleanup_generated_files ==
    /\ \E confirm \in Answers :
          IF lower(confirm) # "y"
          THEN /\ fs' = fs
               /\ util' = [option |-> "cleanup", confirm |-> confirm,
                           before |-> fs, printed |-> "Cancelled."]
          ELSE /\ fs' = cleanup_removals(fs)
               /\ util' = [option |-> "cleanup", confirm |-> confirm,
                           before |-> fs, printed |-> "CLEANUP COMPLETE"]
    /\ CleanupFrame

\* python cleanup_utility.py uninstall
uninstall_all ==
    /\ \E confirm \in Answers :
          IF lower(confirm) # "yes"
          THEN /\ fs' = fs
               /\ util' = [option |-> "uninstall", confirm |-> confirm,
                           before |-> fs, printed |-> "Cancelled."]
          ELSE /\ fs' = uninstall_removals(fs)
               /\ util' = [option |-> "uninstall", confirm |-> confirm,
                           before |-> fs, printed |-> "UNINSTALL COMPLETE"]
    /\ CleanupFrame

\* reset_to_fresh after its confirmation, up to the call of uninstall_all:
\* validated_results/ is removed and made again empty, and the .json files
\* that os.listdir("tests") names are removed
reset_data_removals(tree) ==
    LET data == IF <<"validated_results">> \in tree
                THEN rmtree(tree, <<"validated_results">>)
                         \cup {<<"validated_results">>}
                ELSE tree
    IN  IF <<"tests">> \in data
        THEN {path \in data :
                 ~(/\ Len(path) = 2
                   /\ path[1] = "tests"
                   /\ EndsWith(path[2], ".json"))}
        ELSE data

\* python cleanup_utility.py reset: the confirmation of reset_to_fresh,
\* its removals, then uninstall_all() with the confirmation that asks for
\* (again), then RESET COMPLETE whatever uninstall_all did
reset_to_fresh ==
    /\ \E confirm \in Answers :
          IF confirm # "DELETE MY DATA"
          THEN /\ fs' = fs
               /\ util' = [option |-> "reset", confirm |-> confirm,
                           before |-> fs, printed |-> "Cancelled."]
          ELSE \E again \in Answers :
                 LET data == reset_data_removals(fs)
                 IN  IF lower(again) # "yes"
                     THEN /\ fs' = data
                          /\ util' = [option |-> "reset", confirm |-> confirm,
                                      before |-> fs, printed |-> "RESET COMPLETE",
                                      uninstall |->
                                          [confirm |-> again, before |-> data,
                                           printed |-> "Cancelled."]]
                     ELSE /\ fs' = uninstall_removals(data)
                          /\ util' = [option |-> "reset", confirm |-> confirm,
                                      before |-> fs, printed |-> "RESET COMPLETE",
                                      uninstall |->
                                          [confirm |-> again, before |-> data,
                                           printed |-> "UNINSTALL COMPLETE"]]
    /\ CleanupFrame

\* sys.argv after the name of the script, for the runs of main that reach
\* none of the three operations
OtherArguments == {<<>>, <<"">>, <<"purge">>, <<"clean">>, <<"--reset">>}

\* python cleanup_utility.py, with no option or with an option that is
\* none of cleanup, uninstall and reset
show_usage ==
    /\ \E argv \in OtherArguments :
          /\ IF Len(argv) < 1 THEN TRUE
             ELSE lower(argv[1]) \notin {"cleanup", "uninstall", "reset"}
          /\ fs' = fs
          /\ util' = [option |-> "usage", argv |-> argv, before |-> fs,
                      printed |-> IF Len(argv) < 1 THEN "Usage"
                                  ELSE "Unknown option"]
    /\ CleanupFrame

NextCleanup ==
    \/ cleanup_generated_files
    \/ uninstall_all
    \/ reset_to_fresh
    \/ show_usage

SpecCleanup == InitCleanup /\ [][NextCleanup]_vars

\* validated_results/ and everything under it
ValidatedResults(tree) == {path \in tree : Below(path, <<"validated_results">>)}

\* C20: cleanup and uninstall keep validated_results/: after either
\* operation, from any starting file tree, the directory and every file
\* and subdirectory under it are exactly as they were before it.
C20_ValidatedResultsKept ==
    (util # <<>> /\ util.option \in {"cleanup", "uninstall"}) =>
        ValidatedResults(fs) = ValidatedResults(util.before)

\* the answers that confirm each operation
Confirms(option) ==
    IF option = "cleanup" THEN {"y", "Y"}
    ELSE IF option = "uninstall" THEN {"yes", "YES", "Yes"}
    ELSE IF option = "reset" THEN {"DELETE MY DATA"}
    ELSE {}

\* C21: no operation of the cleanup utility removes anything without its
\* confirmation: cleanup takes y in any case, uninstall takes yes in any
\* case, reset takes exactly DELETE MY DATA; after any other answer the
\* operation has printed Cancelled and the file tree is as before, and a
\* run with an unknown or a missing option leaves the tree as it was.
C21_NothingUnconfirmed ==
    util # <<>> =>
        /\ (util.option \in {"cleanup", "uninstall", "reset"}
                /\ util.confirm \notin Confirms(util.option)) =>
               (fs = util.before /\ util.printed = "Cancelled.")
        /\ (util.option \in {"cleanup", "uninstall", "reset"}
                /\ util.confirm \in Confirms(util.option)) =>
               util.printed # "Cancelled."
        /\ ("uninstall" \in DOMAIN util
                /\ util.uninstall.confirm \notin Confirms("uninstall")) =>
               (fs = util.uninstall.before /\ util.uninstall.printed = "Cancelled.")
        /\ util.option = "usage" => fs = util.before

\* a reset answered in lower case, in a directory that holds data
C21_Witness ==
    /\ util # <<>>
    /\ util.option = "reset"
    /\ util.confirm = "delete my data"
    /\ util.printed = "Cancelled."
    /\ <<"validated_results", "results.json">> \in fs
    /\ <<"venv">> \in fs

\* the state reset_to_fresh announces: no data under validated_results/,
\* no .json file in tests/, no virtual environment, no
\* publication_figures/, no __pycache__, no temporary file
FullReset(tree) ==
    /\ ValidatedResults(tree) \subseteq {<<"validated_results">>}
    /\ ~\E path \in tree :
           /\ Len(path) = 2
           /\ path[1] = "tests"
           /\ EndsWith(path[2], ".json")
    /\ \A venv \in {"venv", "env", "reviewer_env", ".venv"} : <<venv>> \notin tree
    /\ <<"publication_figures">> \notin tree
    /\ ~\E path \in tree : \E k \in 1..Len(path) : path[k] = "__pycache__"
    /\ ~\E path \in tree : \E suffix \in {".pyc", ".log", ".tmp"} :
           EndsWith(path[Len(path)], suffix)

\* C26: a reset confirmed with DELETE MY DATA ends in the full reset state:
\* the data and tests/*.json are removed and so are the virtual
\* environments, publication_figures/, __pycache__ and the temporary
\* files; it never ends with the data deleted and the rest still there.
C26_ResetIsFull ==
    (util # <<>> /\ util.option = "reset" /\ util.confirm = "DELETE MY DATA") =>
        FullReset(fs)

====
